---- MODULE Spec2Model ----
(***************************************************************************)
(* Service lifecycles and containers of random-di.                         *)
(*                                                                         *)
(* The repository holds several iterations of the same design; a run of    *)
(* the model is a run of one of them (variable "variant"):                 *)
(*   "v1"       the lifecycle classes SingletonService and                 *)
(*              TransientService (packages/container/src/v1/LifeCycle)     *)
(*   "storage"  ServiceStorage.getOrInstantiate                            *)
(*              (packages/container/tests/New/Lifecycle.spec.ts)           *)
(*   "builder"  the Container made by ContainerBuilder, with its           *)
(*              Singleton and Transient instantiables (unnamed/part_012)   *)
(*   "graph"    DirectedAcyclicGraph used on its own                       *)
(*   "v1builder" the v1 ContainerBuilder.addService over its graph         *)
(*   "declare"  ContainerBuilder.fromFactory / checkDependenciesValidity   *)
(*              (unnamed/part_012), before build()                         *)
(*   "registrar" the partitioned ContainerBuilder                          *)
(*              (packages/container/src/Implementation/Container.ts)       *)
(*   "syncpromise" SyncPromise and native Promises combined by a caller    *)
(*              (packages/container/src/v1/SyncPromise.ts)                 *)
(*   "v1container" the v1 Container.get / getAsync over a built graph      *)
(*              (packages/container/src/v1/Container.ts)                   *)
(*   "built"    Container.get on what a ContainerBuilder declared          *)
(*              (unnamed/part_012), after build()                          *)
(*   "scoped"   a Container and a ScopedContainer built over it            *)
(*              (packages/container/src/Implementation/ScopedContainer.ts) *)
(*   "dependents" the v1 Container over Singletons with an invalidate      *)
(*              predicate (unnamed/part_023, the test that is skipped)     *)
(*   "Singleton", "SingletonService", "SingletonFactoryRegistry"           *)
(*              the slot of one Singleton of unnamed/part_012, v1 and      *)
(*              unnamed/part_002, with a factory that may return anything  *)
(*                                                                         *)
(* A service value is <<>> (JavaScript undefined) or <<i>>, the i-th       *)
(* object any factory or repair callback created: two values are           *)
(* reference-identical exactly when they are equal.                        *)
(***************************************************************************)
EXTENDS Integers, Sequences, FiniteSets, TLC

VARIABLES
    variant,              \* which iteration of the design this run is
    heap,                 \* the objects created so far; heap[i] tells who made object i, for which service, from what
    connected,            \* the objects whose _isConnected flag is true
    params,               \* SingletonService.params (which callbacks are registered)
    instantiatedService,  \* SingletonService.instantiatedService
    calls,                \* one record per SingletonService.instantiate call (its promise chain)
    destroys,             \* one record per SingletonService.destroy call
    transientCalls,       \* what each TransientService.instantiate call returned
    lifeCycle,            \* the LifeCycleKind passed to ServiceStorage.getOrInstantiate
    singletonMap,         \* ServiceStorage.singletonMap, at the identifier in use
    semiTransientMap,     \* ServiceStorage.semiTransientMap, at the identifier in use
    storageOps,           \* one record per getOrInstantiate call of a (semi-)transient
    classes,              \* Container.classes: the registrations, in insertion order
    instance,             \* Singleton.instance of every registered Singleton
    isDestroyed,          \* Container.isDestroyed
    pendingDelete,        \* Singletons whose async destroy callback has not settled
    ops,                  \* one record per Container.get / Container.destroy call
    vertices,             \* DirectedAcyclicGraph.vertices
    enableDeclarationDisorder, \* ContainerBuilder.enableDeclarationDisorder
    syncFactories,        \* partitioned ContainerBuilder.syncFactories: lifeCycle -> key -> options
    asyncFactories,       \* partitioned ContainerBuilder.asyncFactories
    lastCall,             \* the latest call on a builder or graph, with its arguments and outcome
    promises,             \* the native Promises created so far, with what each waits for
    slots,                \* v1 Container: SingletonService.instantiatedService of every vertex
    gets                  \* one record per get / getAsync call on a built container

v1Vars == <<params, instantiatedService, destroys, transientCalls>>
storageVars == <<lifeCycle, singletonMap, semiTransientMap, storageOps>>
builderVars == <<classes, instance, isDestroyed, pendingDelete, ops>>
registrationVars == <<vertices, enableDeclarationDisorder, syncFactories, asyncFactories,
                      lastCall>>
resolutionVars == <<promises, slots, gets>>
vars == <<variant, heap, connected, calls, v1Vars, storageVars, builderVars, registrationVars,
          resolutionVars>>

\* ---------------------------------------------------------------- bounds
MaxInstances == 4
MaxCalls == 3
MaxDestroys == 2
MaxTicks == 6
MaxWindow == 2
MaxOps == 4
MaxVertices == 3
MaxDependencies == 2
MaxPromises == 3
MaxGets == 1
MaxRegistrations == 2

\* ---------------------------------------------------------------- values
Undef == <<>>
Obj(i) == <<i>>
Id(v) == v[1]
Truthy(v) == v # Undef
\* a ?? b
Coalesce(a, b) == IF a # Undef THEN a ELSE b

\* ---------------------------------------------------------------- heap
\* A factory or a repair callback runs "new ...": the object is connected or
\* not as the callback leaves it (c).
NewObject(S, by, of, args, c) ==
    LET i == Len(S.heap) + 1
    IN [S EXCEPT !.heap = Append(@, [by |-> by, of |-> of, args |-> args]),
                 !.connected = IF c THEN @ \cup {i} ELSE @]

\* ------------------------------------------------ v1 SingletonService
RepairKinds == {"none", "inplace", "fresh"}

\* What addService is given: lifeCycle 'Transient' makes a TransientService of
\* the factory, anything else a SingletonService of the factory and the
\* optional invalidate, repair and destroy callbacks.
ParamSets ==
    {p \in [type : {"Singleton", "Transient"}, invalidate : BOOLEAN,
            repair : RepairKinds, destroy : BOOLEAN,
            asyncFactory : BOOLEAN, asyncRepair : BOOLEAN] :
        /\ p.repair = "none" => ~p.asyncRepair
        /\ p.type = "Transient" =>
              ~p.invalidate /\ p.repair = "none" /\ ~p.destroy}

\* A default predicate that invalidates whatever it is shown.
AlwaysInvalidate(S, v) == TRUE

\* defaultInvalidateSingletonServiceInstance
defaultInvalidateSingletonServiceInstance(S, v) == FALSE

\* The registered predicate of the tests: service => !service.isConnected()
customInvalidate(S, v) == Id(v) \notin S.connected

\* const invalidate = this.params.invalidate ?? defaultInvalidateSingletonServiceInstance
invalidate(S, v) ==
    IF params.invalidate THEN customInvalidate(S, v)
    ELSE defaultInvalidateSingletonServiceInstance(S, v)

NewCall ==
    [stage |-> "A", pre |-> Undef, isInvalid |-> FALSE, re |-> Undef,
     inner |-> Undef, res |-> Undef, sync |-> FALSE, waited |-> FALSE,
     nFactory |-> 0, nRepair |-> 0, nInvalidate |-> 0]

\* isInvalidPromise: innerService => innerService ? invalidate(innerService) : false
IsInvalidStep(S, k, v) ==
    [S EXCEPT !.calls[k].pre = v,
              !.calls[k].isInvalid = IF Truthy(v) THEN invalidate(S, v) ELSE FALSE,
              !.calls[k].nInvalidate = IF Truthy(v) THEN @ + 1 ELSE @,
              !.calls[k].stage = "B"]

\* this.params.repair(instance): reconnects the instance and returns it, or
\* returns a replacement object.
RepairCall(S, k, c) ==
    LET v == S.calls[k].pre
        S1 == IF params.repair = "inplace"
                THEN [S EXCEPT !.connected = @ \cup {Id(v)}]
                ELSE NewObject(S, "repair", "service", <<>>, c)
        r == IF params.repair = "inplace" THEN v ELSE Obj(Len(S1.heap))
    IN IF params.asyncRepair
         THEN [S1 EXCEPT !.calls[k].inner = r, !.calls[k].nRepair = @ + 1,
                         !.calls[k].stage = "WB"]
         ELSE [S1 EXCEPT !.calls[k].re = r, !.calls[k].nRepair = @ + 1,
                         !.calls[k].stage = "C"]

\* this.params.factory(...params) inside reInstantiatedServicePromise
FactoryCallB(S, k, c) ==
    LET S1 == NewObject(S, "factory", "service", <<>>, c)
        r == Obj(Len(S1.heap))
    IN IF params.asyncFactory
         THEN [S1 EXCEPT !.calls[k].inner = r, !.calls[k].nFactory = @ + 1,
                         !.calls[k].stage = "WB"]
         ELSE [S1 EXCEPT !.calls[k].re = r, !.calls[k].nFactory = @ + 1,
                         !.calls[k].stage = "C"]

\* A re-instantiation that overlooks the repair callback.
ReInstantiateStep_NoRepair(S, k, c) ==
    IF ~S.calls[k].isInvalid
      THEN [S EXCEPT !.calls[k].re = Undef, !.calls[k].stage = "C"]
    ELSE FactoryCallB(S, k, c)

\* reInstantiatedServicePromise: isInvalid ? (repair ? repair(instance) : factory()) : undefined
ReInstantiateStep(S, k, c) ==
    IF ~S.calls[k].isInvalid
      THEN [S EXCEPT !.calls[k].re = Undef, !.calls[k].stage = "C"]
    ELSE IF params.repair # "none" THEN RepairCall(S, k, c)
    ELSE FactoryCallB(S, k, c)

\* this.params.factory(...params) inside instancePromise
FactoryCallC(S, k, c) ==
    LET S1 == NewObject(S, "factory", "service", <<>>, c)
        r == Obj(Len(S1.heap))
    IN IF params.asyncFactory
         THEN [S1 EXCEPT !.calls[k].inner = r, !.calls[k].nFactory = @ + 1,
                         !.calls[k].stage = "WC"]
         ELSE [S1 EXCEPT !.calls[k].res = r, !.calls[k].nFactory = @ + 1,
                         !.calls[k].stage = "done"]

\* reInstantiated ?? factory(): the cached instance left out.
PickStep_NoCache(S, k, c) ==
    IF S.calls[k].re # Undef
      THEN [S EXCEPT !.calls[k].res = S.calls[k].re, !.calls[k].stage = "done"]
      ELSE FactoryCallC(S, k, c)

\* instantiated ?? reInstantiated ?? factory(): the operands the wrong way round.
PickStep_StaleFirst(S, k, c) ==
    LET kept == Coalesce(S.calls[k].pre, S.calls[k].re)
    IN IF kept # Undef
         THEN [S EXCEPT !.calls[k].res = kept, !.calls[k].stage = "done"]
         ELSE FactoryCallC(S, k, c)

\* instancePromise: reInstantiated ?? instantiated ?? this.params.factory(...params)
PickStep(S, k, c) ==
    LET kept == Coalesce(S.calls[k].re, S.calls[k].pre)
    IN IF kept # Undef
         THEN [S EXCEPT !.calls[k].res = kept, !.calls[k].stage = "done"]
         ELSE FactoryCallC(S, k, c)

Here == [heap |-> heap, connected |-> connected, calls |-> calls]

Install(S) ==
    /\ Len(S.heap) <= MaxInstances
    /\ heap' = S.heap
    /\ connected' = S.connected
    /\ calls' = S.calls

\* instantiate() on a slot that is a SyncPromise: the three then-callbacks run
\* in the caller's stack frame until one of them returns a real Promise.
SyncRun(S, k, v, c) ==
    LET S1 == IsInvalidStep(S, k, v)
        S2 == ReInstantiateStep(S1, k, c)
        S3 == IF S2.calls[k].stage = "C" THEN PickStep(S2, k, c) ELSE S2
    IN [S3 EXCEPT !.calls[k].sync = (S3.calls[k].stage = "done")]

\* The slot holds a promise that has not settled yet.
Unsettled(slot) == ~slot.sync /\ calls[slot.call].stage # "done"

SingletonService_instantiate ==
    /\ variant = "v1"
    /\ params.type = "Singleton"
    /\ Len(calls) < MaxCalls
    /\ \E c \in BOOLEAN :
        LET k == Len(calls) + 1
            S0 == [Here EXCEPT !.calls = Append(@,
                     [NewCall EXCEPT !.waited = Unsettled(instantiatedService)])]
            S == IF instantiatedService.sync
                   THEN SyncRun(S0, k, instantiatedService.val, c)
                   ELSE S0
        IN /\ Install(S)
           /\ instantiatedService' =
                IF S.calls[k].stage = "done"
                  THEN [sync |-> TRUE, val |-> S.calls[k].res, call |-> 0]
                  ELSE [sync |-> FALSE, val |-> Undef, call |-> k]
    /\ UNCHANGED <<variant, resolutionVars, params, destroys, transientCalls, storageVars, builderVars, registrationVars>>

\* A then-callback that runs before the promise it is chained on has settled.
ContinueIsInvalid_Eager(k) ==
    /\ variant = "v1"
    /\ calls[k].stage = "A"
    /\ k > 1
    /\ Install(IsInvalidStep(Here, k,
          IF calls[k - 1].stage = "done" THEN calls[k - 1].res ELSE Undef))
    /\ UNCHANGED <<variant, resolutionVars, v1Vars, storageVars, builderVars, registrationVars>>

\* The then-callbacks of a slot that is a real Promise run later, one at a
\* time, once the promise they wait for has settled.
ContinueIsInvalid(k) ==
    /\ variant = "v1"
    /\ calls[k].stage = "A"
    /\ k > 1
    /\ calls[k - 1].stage = "done"
    /\ Install(IsInvalidStep(Here, k, calls[k - 1].res))
    /\ UNCHANGED <<variant, resolutionVars, v1Vars, storageVars, builderVars, registrationVars>>

ContinueReInstantiate(k) ==
    /\ variant = "v1"
    /\ calls[k].stage = "B"
    /\ \E c \in BOOLEAN : Install(ReInstantiateStep(Here, k, c))
    /\ UNCHANGED <<variant, resolutionVars, v1Vars, storageVars, builderVars, registrationVars>>

\* The promise returned by an async repair or factory settles.
SettleReInstantiated(k) ==
    /\ variant = "v1"
    /\ calls[k].stage = "WB"
    /\ calls' = [calls EXCEPT ![k].re = calls[k].inner, ![k].stage = "C"]
    /\ UNCHANGED <<variant, resolutionVars, heap, connected, v1Vars, storageVars, builderVars, registrationVars>>

ContinuePick(k) ==
    /\ variant = "v1"
    /\ calls[k].stage = "C"
    /\ \E c \in BOOLEAN : Install(PickStep(Here, k, c))
    /\ UNCHANGED <<variant, resolutionVars, v1Vars, storageVars, builderVars, registrationVars>>

SettleFactory(k) ==
    /\ variant = "v1"
    /\ calls[k].stage = "WC"
    /\ calls' = [calls EXCEPT ![k].res = calls[k].inner, ![k].stage = "done"]
    /\ UNCHANGED <<variant, resolutionVars, heap, connected, v1Vars, storageVars, builderVars, registrationVars>>

\* destroy(): service => { if (service) return destroyFunction(service) },
\* destroyFunction being this.params.destroy or a no-op.
DestroyCallback(service) ==
    [waits |-> 0, done |-> TRUE, called |-> params.destroy /\ Truthy(service),
     arg |-> IF params.destroy /\ Truthy(service) THEN service ELSE Undef]

SingletonService_destroy ==
    /\ variant = "v1"
    /\ params.type = "Singleton"
    /\ Len(destroys) < MaxDestroys
    /\ destroys' = Append(destroys,
         IF instantiatedService.sync
           THEN DestroyCallback(instantiatedService.val)
           ELSE [waits |-> instantiatedService.call, done |-> FALSE,
                 called |-> FALSE, arg |-> Undef])
    /\ UNCHANGED <<variant, resolutionVars, heap, connected, calls, params, instantiatedService, transientCalls, storageVars, builderVars, registrationVars>>

ContinueDestroy(d) ==
    /\ variant = "v1"
    /\ ~destroys[d].done
    /\ calls[destroys[d].waits].stage = "done"
    /\ destroys' = [destroys EXCEPT ![d] = DestroyCallback(calls[destroys[d].waits].res)]
    /\ UNCHANGED <<variant, resolutionVars, heap, connected, calls, params, instantiatedService, transientCalls, storageVars, builderVars, registrationVars>>

\* A transient that keeps the first instance it made.
TransientService_instantiate_Kept ==
    /\ variant = "v1"
    /\ params.type = "Transient"
    /\ Len(transientCalls) < MaxCalls
    /\ \E c \in BOOLEAN :
        LET S == IF transientCalls = <<>>
                   THEN NewObject(Here, "factory", "service", <<>>, c)
                   ELSE Here
        IN /\ Install(S)
           /\ transientCalls' = Append(transientCalls,
                 IF transientCalls = <<>> THEN Obj(Len(S.heap)) ELSE transientCalls[1])
    /\ UNCHANGED <<variant, resolutionVars, params, instantiatedService, destroys, storageVars, builderVars, registrationVars>>

\* ------------------------------------------------ v1 TransientService
\* instantiate(...params) { return this.params.factory(...params) }
TransientService_instantiate ==
    /\ variant = "v1"
    /\ params.type = "Transient"
    /\ Len(transientCalls) < MaxCalls
    /\ \E c \in BOOLEAN :
        LET S == NewObject(Here, "factory", "service", <<>>, c)
        IN /\ Install(S)
           /\ transientCalls' = Append(transientCalls, Obj(Len(S.heap)))
    /\ UNCHANGED <<variant, resolutionVars, params, instantiatedService, destroys, storageVars, builderVars, registrationVars>>

\* ------------------------------------------------ ServiceStorage
\* new Date(...).valueOf() counts milliseconds; timeBetweenRefresh counts seconds.
MsPerSecond == 1000

\* The instants a call may pass as "now" (or the wall clock may show): every
\* half second up to MaxTicks half seconds.
Times == {t * (MsPerSecond \div 2) : t \in 0..MaxTicks}

\* LifeCycle.Transient, LifeCycle.newSingleton({invalidate, refresh}),
\* LifeCycle.newSemiTransient({timeBetweenRefresh})
StorageLifeCycles ==
    {l \in [type : {"Transient", "Singleton", "SemiTransient"}, invalidate : BOOLEAN,
            refresh : RepairKinds, asyncFactory : BOOLEAN, asyncRefresh : BOOLEAN,
            timeBetweenRefresh : 0..MaxWindow] :
        /\ l.refresh = "none" => ~l.asyncRefresh
        /\ l.type # "Singleton" =>
              ~l.invalidate /\ l.refresh = "none" /\ ~l.asyncFactory
        /\ l.type # "SemiTransient" => l.timeBetweenRefresh = 0}

\* defaultSingleton.invalidate is () => false; the tests register
\* service => !service.isConnected()
storageInvalidate(S, v) ==
    IF lifeCycle.invalidate THEN Id(v) \notin S.connected ELSE FALSE

\* func(), for a singleton
StorageFunc(S, k, c) ==
    LET S1 == NewObject(S, "factory", "service", <<>>, c)
        r == Obj(Len(S1.heap))
    IN IF lifeCycle.asyncFactory
         THEN [S1 EXCEPT !.calls[k].inner = r, !.calls[k].nFactory = @ + 1,
                         !.calls[k].stage = "WC"]
         ELSE [S1 EXCEPT !.calls[k].res = r, !.calls[k].nFactory = @ + 1,
                         !.calls[k].stage = "done"]

\* lifeCycle.refresh(singleton)
StorageRefresh(S, k, c) ==
    LET v == S.calls[k].pre
        S1 == IF lifeCycle.refresh = "inplace"
                THEN [S EXCEPT !.connected = @ \cup {Id(v)}]
                ELSE NewObject(S, "repair", "service", <<>>, c)
        r == IF lifeCycle.refresh = "inplace" THEN v ELSE Obj(Len(S1.heap))
    IN IF lifeCycle.asyncRefresh
         THEN [S1 EXCEPT !.calls[k].inner = r, !.calls[k].nRepair = @ + 1,
                         !.calls[k].stage = "WC"]
         ELSE [S1 EXCEPT !.calls[k].res = r, !.calls[k].nRepair = @ + 1,
                         !.calls[k].stage = "done"]

\* reloadCachedSingleton: lifeCycle.invalidate(singleton)
ReloadIsInvalidStep(S, k, v) ==
    [S EXCEPT !.calls[k].pre = v,
              !.calls[k].isInvalid = storageInvalidate(S, v),
              !.calls[k].nInvalidate = @ + 1,
              !.calls[k].stage = "B"]

\* reloadCachedSingleton: isInvalid ? refreshSingleton(singleton) : singleton,
\* refreshSingleton being lifeCycle.refresh or () => func()
ReloadRefreshStep(S, k, c) ==
    IF ~S.calls[k].isInvalid
      THEN [S EXCEPT !.calls[k].res = S.calls[k].pre, !.calls[k].stage = "done"]
    ELSE IF lifeCycle.refresh # "none" THEN StorageRefresh(S, k, c)
    ELSE StorageFunc(S, k, c)

\* getOrInstantiate with a Singleton lifecycle and a cache entry that is not a
\* Promise: isCached ? reloadCachedSingleton(...) : cachedResult, then ?? func()
StorageSyncRun(S, k, v, c) ==
    LET S1 == IF v # Undef
                THEN ReloadRefreshStep(ReloadIsInvalidStep(S, k, v), k, c)
                ELSE StorageFunc(S, k, c)
    IN [S1 EXCEPT !.calls[k].sync = (S1.calls[k].stage = "done")]

ServiceStorage_getOrInstantiate_Singleton ==
    /\ variant = "storage"
    /\ lifeCycle.type = "Singleton"
    /\ Len(calls) < MaxCalls
    /\ \E c \in BOOLEAN :
        LET k == Len(calls) + 1
            S0 == [Here EXCEPT !.calls = Append(@,
                     [NewCall EXCEPT !.waited = Unsettled(singletonMap)])]
            S == IF singletonMap.sync
                   THEN StorageSyncRun(S0, k, singletonMap.val, c)
                   ELSE S0
        IN /\ Install(S)
           /\ singletonMap' =
                IF S.calls[k].stage = "done"
                  THEN [sync |-> TRUE, val |-> S.calls[k].res, call |-> 0]
                  ELSE [sync |-> FALSE, val |-> Undef, call |-> k]
    /\ UNCHANGED <<variant, resolutionVars, lifeCycle, semiTransientMap, storageOps, v1Vars, builderVars, registrationVars>>

\* The two then-callbacks reloadCachedSingleton chains on a cached Promise.
ReloadContinueIsInvalid(k) ==
    /\ variant = "storage"
    /\ calls[k].stage = "A"
    /\ k > 1
    /\ calls[k - 1].stage = "done"
    /\ Install(ReloadIsInvalidStep(Here, k, calls[k - 1].res))
    /\ UNCHANGED <<variant, resolutionVars, v1Vars, storageVars, builderVars, registrationVars>>

ReloadContinueRefresh(k) ==
    /\ variant = "storage"
    /\ calls[k].stage = "B"
    /\ \E c \in BOOLEAN : Install(ReloadRefreshStep(Here, k, c))
    /\ UNCHANGED <<variant, resolutionVars, v1Vars, storageVars, builderVars, registrationVars>>

\* The promise func() or refresh() returned settles.
ReloadSettle(k) ==
    /\ variant = "storage"
    /\ calls[k].stage = "WC"
    /\ calls' = [calls EXCEPT ![k].res = calls[k].inner, ![k].stage = "done"]
    /\ UNCHANGED <<variant, resolutionVars, heap, connected, v1Vars, storageVars, builderVars, registrationVars>>

\* A refresh that is due only after the window's end, not at it.
RefreshDueAfter(entry, now) ==
    entry.lastRefreshTime + lifeCycle.timeBetweenRefresh * MsPerSecond < now

\* nextRefreshTime.valueOf() <= localNow.valueOf()
RefreshDue(entry, now) ==
    entry.lastRefreshTime + lifeCycle.timeBetweenRefresh * MsPerSecond <= now

\* getOrInstantiate with a SemiTransient lifecycle
ServiceStorage_getOrInstantiate_SemiTransient ==
    /\ variant = "storage"
    /\ lifeCycle.type = "SemiTransient"
    /\ Len(storageOps) < MaxCalls
    /\ \E now \in Times :
        LET cached == semiTransientMap
            S1 == IF cached = <<>>
                    THEN NewObject(Here, "factory", "service", <<>>, TRUE)
                    ELSE Here
            result == IF cached = <<>>
                        THEN [lastRefreshTime |-> now, value |-> Obj(Len(S1.heap))]
                        ELSE cached[1]
            due == RefreshDue(result, now)
            S2 == IF due THEN NewObject(S1, "factory", "service", <<>>, TRUE) ELSE S1
            refreshed == IF due
                           THEN [lastRefreshTime |-> now, value |-> Obj(Len(S2.heap))]
                           ELSE result
        IN /\ Install(S2)
           /\ semiTransientMap' = <<refreshed>>
           /\ storageOps' = Append(storageOps,
                [now |-> now, cached |-> cached, value |-> refreshed.value,
                 nFactory |-> Len(S2.heap) - Len(heap)])
    /\ UNCHANGED <<variant, resolutionVars, lifeCycle, singletonMap, v1Vars, builderVars, registrationVars>>

\* getOrInstantiate with the Transient lifecycle: return func()
ServiceStorage_getOrInstantiate_Transient ==
    /\ variant = "storage"
    /\ lifeCycle.type = "Transient"
    /\ Len(storageOps) < MaxCalls
    /\ LET S == NewObject(Here, "factory", "service", <<>>, TRUE)
       IN /\ Install(S)
          /\ storageOps' = Append(storageOps,
                [now |-> 0, cached |-> <<>>, value |-> Obj(Len(S.heap)), nFactory |-> 1])
    /\ UNCHANGED <<variant, resolutionVars, lifeCycle, singletonMap, semiTransientMap, v1Vars, builderVars, registrationVars>>

\* ------------------------------------------------ ContainerBuilder / Container
\* The names the application uses: two it registers, the second depending on
\* the first, and one it never registers.
Names == {"db", "repo", "ghost"}

\* What a destroy callback does: returns, throws, or returns a promise that
\* fulfils or rejects.
DestroyKinds == {"none", "sync", "throws", "async", "rejects"}

\* The options fromFactory accepts for a name without throwing
\* CannotRepairTransientError or CannotDestroyTransientError.
Registrations(name, deps) ==
    {r \in [name : {name}, dependencies : {deps}, lifeCycle : {"Singleton", "Transient"},
            repair : RepairKinds, destroy : DestroyKinds] :
        r.lifeCycle = "Transient" => r.repair = "none" /\ r.destroy = "none"}

Registered(name) == \E i \in 1..Len(classes) : classes[i].name = name

\* this.classes.get(serviceName)
Service(name) == classes[CHOOSE i \in 1..Len(classes) : classes[i].name = name]

BuilderHere ==
    [heap |-> heap, connected |-> connected, calls |-> calls, instance |-> instance,
     pendingDelete |-> pendingDelete, err |-> "", ret |-> Undef, args |-> <<>>,
     events |-> <<>>]

\* Transient.instantiate: return this.factory(...params)
Transient_instantiate(S, name, args) ==
    LET S1 == NewObject(S, "factory", name, args, TRUE)
        v == Obj(Len(S1.heap))
    IN [S1 EXCEPT !.ret = v, !.events = Append(@, <<"factory", name, v>>)]

\* this.repair?.(this.instance, ...params) ?? this.instance
Singleton_repair(S, name, args) ==
    LET v == S.instance[name]
        kind == Service(name).repair
        S1 == IF kind = "inplace"
                THEN [S EXCEPT !.connected = @ \cup {Id(v)}]
                ELSE NewObject(S, "repair", name, args, TRUE)
        r == IF kind = "inplace" THEN v ELSE Obj(Len(S1.heap))
    IN IF kind = "none" THEN S
       ELSE [S1 EXCEPT !.instance[name] = r,
                       !.events = Append(@, <<"repair", name, r>>)]

\* A singleton that forgets what it made.
Singleton_instantiate_NoStore(S, name, args) == Transient_instantiate(S, name, args)

\* Singleton.instantiate
Singleton_instantiate(S, name, args) ==
    LET S1 == IF ~Truthy(S.instance[name])
                THEN LET F == NewObject(S, "factory", name, args, TRUE)
                         v == Obj(Len(F.heap))
                     IN [F EXCEPT !.instance[name] = v,
                                  !.events = Append(@, <<"factory", name, v>>)]
                ELSE S
        S2 == Singleton_repair(S1, name, args)
    IN [S2 EXCEPT !.ret = S2.instance[name]]

RECURSIVE Get(_, _), GetAll(_, _, _)

\* A get that resolves no dependency
GetAll_None(S, deps, acc) == [S EXCEPT !.args = acc]

\* dependencies.map(dependency => this.get(dependency))
GetAll(S, deps, acc) ==
    IF deps = <<>> \/ S.err # "" THEN [S EXCEPT !.args = acc]
    ELSE LET S1 == Get(S, Head(deps))
         IN GetAll(S1, Tail(deps), Append(acc, S1.ret))

\* Container.get
Get(S, name) ==
    IF isDestroyed THEN [S EXCEPT !.err = "CannotRetrieveDestroyedServiceError"]
    ELSE IF ~Registered(name) THEN [S EXCEPT !.err = "NoServiceFoundError"]
    ELSE LET S1 == GetAll(S, Service(name).dependencies, <<>>)
         IN IF S1.err # "" THEN S1
            ELSE IF Service(name).lifeCycle = "Singleton"
                   THEN Singleton_instantiate(S1, name, S1.args)
                   ELSE Transient_instantiate(S1, name, S1.args)

InstallBuilder(S) ==
    /\ Install(S)
    /\ instance' = S.instance
    /\ pendingDelete' = S.pendingDelete

Container_get(name) ==
    /\ variant = "builder"
    /\ Len(ops) < MaxOps
    /\ LET S == Get(BuilderHere, name)
       IN /\ InstallBuilder(S)
          /\ ops' = Append(ops,
                [op |-> "get", name |-> name, classes |-> classes,
                 pre |-> instance, post |-> S.instance,
                 wasDestroyed |-> isDestroyed,
                 outcome |-> IF S.err = "" THEN "returned" ELSE S.err,
                 value |-> IF S.err = "" THEN S.ret ELSE Undef,
                 events |-> S.events])
    /\ UNCHANGED <<variant, resolutionVars, classes, isDestroyed, v1Vars, storageVars, registrationVars>>

\* A destroy that does not look whether there is an instance to destroy.
Singleton_destroy_Unchecked(S, name) ==
    LET kind == Service(name).destroy
        v == S.instance[name]
        S1 == [S EXCEPT !.events = Append(@, <<"destroy", name, v>>)]
    IN IF kind = "none" THEN S
       ELSE IF kind = "throws" THEN [S1 EXCEPT !.err = "threw"]
       ELSE IF kind = "sync" THEN [S1 EXCEPT !.instance[name] = Undef]
       ELSE IF kind = "async" THEN [S1 EXCEPT !.pendingDelete = @ \cup {name},
                                              !.args = Append(@, "fulfils")]
       ELSE [S1 EXCEPT !.args = Append(@, "rejects")]

\* Singleton.destroy
Singleton_destroy(S, name) ==
    LET kind == Service(name).destroy
        v == S.instance[name]
        S1 == [S EXCEPT !.events = Append(@, <<"destroy", name, v>>)]
    IN IF kind = "none" \/ ~Truthy(v) THEN S
       ELSE IF kind = "throws" THEN [S1 EXCEPT !.err = "threw"]
       ELSE IF kind = "sync" THEN [S1 EXCEPT !.instance[name] = Undef]
       ELSE IF kind = "async" THEN [S1 EXCEPT !.pendingDelete = @ \cup {name},
                                              !.args = Append(@, "fulfils")]
       ELSE [S1 EXCEPT !.args = Append(@, "rejects")]

RECURSIVE DestroyLoop(_, _)

\* for (const [ , { factory } ] of this.classes) if (isDestroyable(factory)) ...
DestroyLoop(S, i) ==
    IF i > Len(classes) \/ S.err # "" THEN S
    ELSE IF classes[i].lifeCycle = "Singleton"
           THEN DestroyLoop(Singleton_destroy(S, classes[i].name), i + 1)
           ELSE DestroyLoop(S, i + 1)

\* Container.destroy
Container_destroy ==
    /\ variant = "builder"
    /\ Len(ops) < MaxOps
    /\ LET S == DestroyLoop(BuilderHere, 1)
           threw == S.err # ""
       IN /\ InstallBuilder(S)
          /\ classes' = IF threw THEN classes ELSE <<>>
          /\ isDestroyed' = IF threw THEN isDestroyed ELSE TRUE
          /\ ops' = Append(ops,
                [op |-> "destroy", name |-> "", classes |-> classes,
                 pre |-> instance, post |-> S.instance,
                 wasDestroyed |-> isDestroyed,
                 outcome |-> IF threw THEN "threw"
                             ELSE IF \E j \in 1..Len(S.args) : S.args[j] = "rejects"
                                    THEN "rejected" ELSE "resolved",
                 value |-> Undef,
                 events |-> S.events])
    /\ UNCHANGED <<variant, resolutionVars, v1Vars, storageVars, registrationVars>>

\* The promise of an async destroy callback fulfils: delete this.instance
SettleDestroyed(name) ==
    /\ variant = "builder"
    /\ name \in pendingDelete
    /\ pendingDelete' = pendingDelete \ {name}
    /\ instance' = [instance EXCEPT ![name] = Undef]
    /\ UNCHANGED <<variant, resolutionVars, heap, connected, calls, classes, isDestroyed, ops,
                   v1Vars, storageVars, registrationVars>>

\* ------------------------------------------------ v1 DirectedAcyclicGraph
\* The identifiers a registration may use.
Keys == {"a", "b", "c"}

\* The dependsOn / neighbours / dependencies lists a call may pass.
DependencyLists ==
    {q \in UNION {[1..n -> Keys] : n \in 0..MaxDependencies} :
        \A i, j \in 1..Len(q) : i # j => q[i] # q[j]}

\* getVertex: this.vertices.find(vertex => vertex.key === key)
getVertex(V, key) ==
    IF \E i \in 1..Len(V) : V[i].key = key
      THEN <<V[CHOOSE i \in 1..Len(V) :
                  V[i].key = key /\ \A j \in 1..(i - 1) : V[j].key # key]>>
      ELSE <<>>

\* isVertexExisting: !!this.getVertex(key)
isVertexExisting(V, key) == getVertex(V, key) # <<>>

\* The first key of a list that the graph has no vertex for.
FirstUnknown(V, list) ==
    list[CHOOSE i \in 1..Len(list) :
            /\ ~isVertexExisting(V, list[i])
            /\ \A j \in 1..(i - 1) : isVertexExisting(V, list[j])]

\* addVertex naming the last missing neighbour instead of the first
addVertex_LastMissing(V, key, neighbours) ==
    LET known(n) == isVertexExisting(V, n)
        last == CHOOSE i \in 1..Len(neighbours) :
                    ~known(neighbours[i]) /\ \A j \in (i + 1)..Len(neighbours) : known(neighbours[j])
    IN IF \E i \in 1..Len(neighbours) : ~known(neighbours[i])
         THEN [vertices |-> V, error |-> <<"NoNeighbourError", key, neighbours[last]>>]
         ELSE [vertices |-> Append(V, [key |-> key, neighbours |-> neighbours]),
               error |-> <<>>]

\* addVertex without the loop over the neighbours
addVertex_Unchecked(V, key, neighbours) ==
    [vertices |-> Append(V, [key |-> key, neighbours |-> neighbours]), error |-> <<>>]

\* addVertex: what it throws, if it does, and the vertices it leaves.
addVertex(V, key, neighbours) ==
    LET known(n) == isVertexExisting(V, n)
    IN IF \E i \in 1..Len(neighbours) : ~known(neighbours[i])
         THEN [vertices |-> V,
               error |-> <<"NoNeighbourError", key, FirstUnknown(V, neighbours)>>]
         ELSE [vertices |-> Append(V, [key |-> key, neighbours |-> neighbours]),
               error |-> <<>>]

DirectedAcyclicGraph_addVertex(key, neighbours) ==
    /\ variant = "graph"
    /\ Len(vertices) < MaxVertices
    /\ LET r == addVertex(vertices, key, neighbours)
       IN /\ vertices' = r.vertices
          /\ lastCall' = <<[op |-> "addVertex", key |-> key, dependencies |-> neighbours,
                            before |-> vertices, error |-> r.error]>>
    /\ UNCHANGED <<variant, resolutionVars, heap, connected, calls, v1Vars, storageVars, builderVars,
                   enableDeclarationDisorder, syncFactories, asyncFactories>>

RECURSIVE traverse(_, _, _), traverseEach(_, _, _)

\* vertex.neighbours.forEach(key => this.traverse(key, visit))
traverseEach(V, keys, R) ==
    IF keys = <<>> \/ R.error # <<>> THEN R
    ELSE traverseEach(V, Tail(keys), traverse(V, Head(keys), R))

\* traverse visiting a vertex after its neighbours
traverse_PostOrder(V, key, R) ==
    IF ~isVertexExisting(V, key) THEN [R EXCEPT !.error = <<"NoVertexError", key>>]
    ELSE LET after == traverseEach(V, getVertex(V, key)[1].neighbours, R)
         IN [after EXCEPT !.visited = Append(@, key)]

\* traverse(key, visit), visit noting the key of the vertex it is given:
\* getVertexStrict, visit(vertex), then the neighbours.
traverse(V, key, R) ==
    IF ~isVertexExisting(V, key) THEN [R EXCEPT !.error = <<"NoVertexError", key>>]
    ELSE traverseEach(V, getVertex(V, key)[1].neighbours,
                      [R EXCEPT !.visited = Append(@, key)])

DirectedAcyclicGraph_traverse(key) ==
    /\ variant = "graph"
    /\ LET r == traverse(vertices, key, [visited |-> <<>>, error |-> <<>>])
       IN lastCall' = <<[op |-> "traverse", key |-> key, visited |-> r.visited,
                         error |-> r.error]>>
    /\ UNCHANGED <<variant, resolutionVars, heap, connected, calls, v1Vars, storageVars,
                   builderVars, vertices, enableDeclarationDisorder, syncFactories,
                   asyncFactories>>

\* v1 ContainerBuilder.addService
addService(V, name, dependsOn) ==
    LET known(n) == isVertexExisting(V, n)
    IN IF isVertexExisting(V, name)
         THEN [vertices |-> V, error |-> <<"ServiceAlreadyRegisteredError", name>>]
       ELSE IF \E i \in 1..Len(dependsOn) : ~known(dependsOn[i])
         THEN [vertices |-> V,
               error |-> <<"DependencyNotFoundError", name, FirstUnknown(V, dependsOn)>>]
       ELSE addVertex(V, name, dependsOn)

ContainerBuilder_addService(name, dependsOn) ==
    /\ variant = "v1builder"
    /\ Len(vertices) < MaxVertices
    /\ LET r == addService(vertices, name, dependsOn)
       IN /\ vertices' = r.vertices
          /\ lastCall' = <<[op |-> "addService", key |-> name, dependencies |-> dependsOn,
                            before |-> vertices, error |-> r.error]>>
    /\ UNCHANGED <<variant, resolutionVars, heap, connected, calls, v1Vars, storageVars, builderVars,
                   enableDeclarationDisorder, syncFactories, asyncFactories>>

\* ------------------------------------------------ ContainerBuilder (part_012)
\* The options a fromFactory call may carry besides name and dependencies.
DeclaredOptions ==
    [lifeCycle : {"Transient", "Singleton"}, repair : {"none", "inplace"},
     destroy : {"none", "sync"}]

\* The dependencies option of the fromFactory calls tried: the lists written
\* in alphabetical order.
DeclaredDependencies ==
    LET rank(k) == CHOOSE i \in 1..3 : <<"a", "b", "c">>[i] = k
    IN {q \in DependencyLists : \A i, j \in 1..Len(q) : i < j => rank(q[i]) < rank(q[j])}

\* fromFactory(name, factory, {dependencies}) with every other option left out
DefaultOptions == [lifeCycle |-> "Transient", repair |-> "none", destroy |-> "none"]

\* The calls of fromFactory tried: any dependencies with the default options,
\* or any options with no dependency.
DeclareCalls ==
    {c \in [dependencies : DeclaredDependencies, options : DeclaredOptions] :
        c.dependencies = <<>> \/ c.options = DefaultOptions}

\* this.classes.has(name)
Declared(C, name) == \E i \in 1..Len(C) : C[i].name = name

\* this.classes.get(serviceName)
DeclaredService(C, name) == C[CHOOSE i \in 1..Len(C) : C[i].name = name]

\* dependencies.filter(dependency => !this.classes.has(dependency))
MissingDependencies(C, dependencies) ==
    SelectSeq(dependencies, LAMBDA d : ~Declared(C, d))

\* fromFactory without the two tests of the Transient life cycle
fromFactory_AnyCallback(C, disorder, reg) ==
    IF Declared(C, reg.name)
      THEN [classes |-> C, error |-> <<"ServiceAlreadyRegisteredError", reg.name>>]
    ELSE IF ~disorder /\ MissingDependencies(C, reg.dependencies) # <<>>
      THEN [classes |-> C,
            error |-> <<"NoServiceFoundError", MissingDependencies(C, reg.dependencies)>>]
    ELSE [classes |-> Append(C, reg), error |-> <<>>]

\* fromFactory: what it throws, if it does, and the classes it leaves.
fromFactory(C, disorder, reg) ==
    IF Declared(C, reg.name)
      THEN [classes |-> C, error |-> <<"ServiceAlreadyRegisteredError", reg.name>>]
    ELSE IF reg.lifeCycle = "Transient" /\ reg.repair # "none"
      THEN [classes |-> C, error |-> <<"CannotRepairTransientError", reg.name>>]
    ELSE IF reg.lifeCycle = "Transient" /\ reg.destroy # "none"
      THEN [classes |-> C, error |-> <<"CannotDestroyTransientError", reg.name>>]
    ELSE IF ~disorder /\ MissingDependencies(C, reg.dependencies) # <<>>
      THEN [classes |-> C,
            error |-> <<"NoServiceFoundError", MissingDependencies(C, reg.dependencies)>>]
    ELSE [classes |-> Append(C, reg), error |-> <<>>]

\* newBuilder().fromFactory(..).fromFactory(..).build(): the calls are chained
\* in one expression, which a throw leaves.
Chained == IF lastCall = <<>> THEN TRUE ELSE lastCall[1].error = <<>>

ContainerBuilder_fromFactory(name, dependencies, options) ==
    /\ variant = "declare"
    /\ Chained
    /\ Len(classes) < MaxVertices
    /\ LET reg == [name |-> name, dependencies |-> dependencies,
                   lifeCycle |-> options.lifeCycle, repair |-> options.repair,
                   destroy |-> options.destroy]
           r == fromFactory(classes, enableDeclarationDisorder, reg)
       IN /\ classes' = r.classes
          /\ lastCall' = <<[op |-> "fromFactory", reg |-> reg, before |-> classes,
                            error |-> r.error]>>
    /\ UNCHANGED <<variant, resolutionVars, heap, connected, calls, v1Vars, storageVars,
                   instance, isDestroyed, pendingDelete, ops,
                   vertices, enableDeclarationDisorder, syncFactories, asyncFactories>>

RECURSIVE find(_, _, _), findAmong(_, _, _)

\* find(serviceName, fn) with the fn of hasCircularDependency, which tells
\* whether the name was seen before and notes it in alreadyVisitedService.
find(C, serviceName, alreadyVisitedService) ==
    IF ~Declared(C, serviceName)
      THEN [found |-> FALSE, visited |-> alreadyVisitedService]
    ELSE LET wasAlreadyVisited ==
                 \E i \in 1..Len(alreadyVisitedService) :
                     alreadyVisitedService[i] = serviceName
             visited == Append(alreadyVisitedService, serviceName)
         IN IF wasAlreadyVisited THEN [found |-> TRUE, visited |-> visited]
            ELSE findAmong(C, DeclaredService(C, serviceName).dependencies, visited)

\* for (const dependency of service.dependencies) { ... if (found) return found }
findAmong(C, dependencies, alreadyVisitedService) ==
    IF dependencies = <<>> THEN [found |-> FALSE, visited |-> alreadyVisitedService]
    ELSE LET r == find(C, Head(dependencies), alreadyVisitedService)
         IN IF r.found THEN r ELSE findAmong(C, Tail(dependencies), r.visited)

hasCircularDependency(C, serviceName) == find(C, serviceName, <<>>)

\* checkDependenciesValidity looking from the first declared service only
checkDependenciesValidity_FirstOnly(C) ==
    IF C # <<>> /\ hasCircularDependency(C, C[1].name).found
      THEN <<"CircularDependencyError", C[1].name, hasCircularDependency(C, C[1].name).visited>>
      ELSE <<>>

\* checkDependenciesValidity: the error of the first service, in insertion
\* order, that hasCircularDependency answers true for.
checkDependenciesValidity(C) ==
    IF \E i \in 1..Len(C) : hasCircularDependency(C, C[i].name).found
      THEN LET i == CHOOSE i \in 1..Len(C) :
                      /\ hasCircularDependency(C, C[i].name).found
                      /\ \A j \in 1..(i - 1) : ~hasCircularDependency(C, C[j].name).found
           IN <<"CircularDependencyError", C[i].name,
                hasCircularDependency(C, C[i].name).visited>>
      ELSE <<>>

ContainerBuilder_checkDependenciesValidity ==
    /\ variant = "declare"
    /\ Chained
    /\ lastCall' = <<[op |-> "checkDependenciesValidity", before |-> classes,
                      error |-> checkDependenciesValidity(classes)]>>
    /\ UNCHANGED <<variant, resolutionVars, heap, connected, calls, v1Vars, storageVars, builderVars,
                   vertices, enableDeclarationDisorder, syncFactories, asyncFactories>>

\* ------------------------------------------------ partitioned ContainerBuilder
LifeCycles == {"Singleton", "Transient"}

\* Map.has(key) on one inner map of factories, kept in insertion order
HasFactory(M, key) == \E i \in 1..Len(M) : M[i].key = key

\* Map.set(key, value) on one inner map
SetFactory(M, key, form) ==
    IF HasFactory(M, key)
      THEN [i \in 1..Len(M) |-> IF M[i].key = key THEN [key |-> key, form |-> form] ELSE M[i]]
      ELSE Append(M, [key |-> key, form |-> form])

isAlreadyRegistered(S, A, key) ==
    \/ HasFactory(A["Transient"], key)
    \/ HasFactory(A["Singleton"], key)
    \/ HasFactory(S["Transient"], key)
    \/ HasFactory(S["Singleton"], key)

\* How many entries the four inner maps hold.
RegisteredCount(S, A) ==
    Len(S["Singleton"]) + Len(S["Transient"]) + Len(A["Singleton"]) + Len(A["Transient"])

\* The add* call made, with what it found and what it threw.
Registering(op, key, lc, error) ==
    <<[op |-> op, key |-> key, lifeCycle |-> lc,
       before |-> [sync |-> syncFactories, async |-> asyncFactories], error |-> error]>>

RegistrarFrame ==
    UNCHANGED <<variant, resolutionVars, heap, connected, calls, v1Vars, storageVars, builderVars,
                vertices, enableDeclarationDisorder>>

ContainerBuilder_addFactory(key, lc) ==
    /\ variant = "registrar"
    /\ RegisteredCount(syncFactories, asyncFactories) < MaxVertices
    /\ IF isAlreadyRegistered(syncFactories, asyncFactories, key)
         THEN /\ lastCall' = Registering("addFactory", key, lc,
                                         <<"ServiceAlreadyRegisteredError", key>>)
              /\ UNCHANGED <<syncFactories, asyncFactories>>
         ELSE /\ syncFactories' =
                    [syncFactories EXCEPT ![lc] = SetFactory(@, key, "factory")]
              /\ lastCall' = Registering("addFactory", key, lc, <<>>)
              /\ UNCHANGED asyncFactories
    /\ RegistrarFrame

ContainerBuilder_addConstructor(key, lc) ==
    /\ variant = "registrar"
    /\ RegisteredCount(syncFactories, asyncFactories) < MaxVertices
    /\ syncFactories' = [syncFactories EXCEPT ![lc] = SetFactory(@, key, "constructor")]
    /\ lastCall' = Registering("addConstructor", key, lc, <<>>)
    /\ UNCHANGED asyncFactories
    /\ RegistrarFrame

ContainerBuilder_addAsyncFactory(key, lc) ==
    /\ variant = "registrar"
    /\ RegisteredCount(syncFactories, asyncFactories) < MaxVertices
    /\ IF isAlreadyRegistered(syncFactories, asyncFactories, key)
         THEN /\ lastCall' = Registering("addAsyncFactory", key, lc,
                                         <<"ServiceAlreadyRegisteredError", key>>)
              /\ UNCHANGED <<syncFactories, asyncFactories>>
         ELSE /\ asyncFactories' =
                    [asyncFactories EXCEPT ![lc] = SetFactory(@, key, "asyncFactory")]
              /\ lastCall' = Registering("addAsyncFactory", key, lc, <<>>)
              /\ UNCHANGED syncFactories
    /\ RegistrarFrame

\* ------------------------------------------------ v1 SyncPromise
\* A JavaScript value as the wrappers see it: a bare value (kind is what it
\* is, val which one), a SyncPromise around val, or the native Promise p.
JsKinds ==
    {"undefined", "null", "number", "boolean", "string", "object", "SyncPromise", "Promise"}

Bare(kind, v) == [kind |-> kind, val |-> v, p |-> 0]

\* SyncPromise.from(value)
SyncPromise_from(v) == [kind |-> "SyncPromise", val |-> v, p |-> 0]

NativePromise(p) == [kind |-> "Promise", val |-> Undef, p |-> p]

\* value instanceof SyncPromise
isSyncPromise(x) == x.kind = "SyncPromise"

\* value instanceof Promise
isPromise(x) == x.kind = "Promise"

\* typeof value
typeof(x) ==
    IF x.kind \in {"undefined", "number", "boolean", "string"} THEN x.kind ELSE "object"

\* SyncPromise.then(onfulfilled), given what onfulfilled(this.value) returned:
\* `'then' in result` throws a TypeError when result is null.
SyncPromise_then(result) ==
    IF typeof(result) = "object"
      THEN IF result.kind = "null" THEN [threw |-> "TypeError", value |-> result]
           ELSE IF result.kind \in {"SyncPromise", "Promise"}
             THEN [threw |-> "", value |-> result]
           ELSE [threw |-> "", value |-> SyncPromise_from(result.val)]
      ELSE [threw |-> "", value |-> SyncPromise_from(result.val)]

\* A native Promise nobody settled yet.
Pending(kind) ==
    [state |-> "pending", kind |-> kind, val |-> Undef, list |-> <<>>,
     inputs |-> <<>>, on |-> 0, of |-> ""]

\* Promise.all(items)
Promise_all(P, items) == Append(P, [Pending("all") EXCEPT !.inputs = items])

\* Whether the promises an array given to Promise.all waits for are fulfilled.
AllFulfilled(P, items) ==
    \A i \in 1..Len(items) : isPromise(items[i]) => P[items[i].p].state = "fulfilled"

\* Promise.all fulfilling with the values in the reverse order
ValuesOf_Reversed(P, items) ==
    [i \in 1..Len(items) |->
        LET x == items[Len(items) + 1 - i]
        IN IF isPromise(x) THEN P[x.p].val ELSE x.val]

\* What Promise.all fulfils with: the value of each item, in the order of the items.
ValuesOf(P, items) ==
    [i \in 1..Len(items) |-> IF isPromise(items[i]) THEN P[items[i].p].val ELSE items[i].val]

\* SyncPromise.all(a, b)
SyncPromise_all(P, a, b) ==
    IF isSyncPromise(a) /\ isSyncPromise(b)
      THEN [promises |-> P, sync |-> TRUE, list |-> <<a.val, b.val>>, p |-> 0]
      ELSE [promises |-> Promise_all(P, <<a, b>>), sync |-> FALSE, list |-> <<>>,
            p |-> Len(P) + 1]

\* allWithoutTypeChecking answering at once with what it has, promises left out
SyncPromise_allWithoutTypeChecking_Eager(P, values) ==
    [promises |-> P, sync |-> TRUE,
     list |-> [i \in 1..Len(values) |-> values[i].val], p |-> 0]

\* SyncPromise.allWithoutTypeChecking(params)
SyncPromise_allWithoutTypeChecking(P, values) ==
    LET hasAsync == \E i \in 1..Len(values) : isPromise(values[i])
    IN IF hasAsync
         THEN [promises |-> Promise_all(P,
                   [i \in 1..Len(values) |->
                       IF isSyncPromise(values[i]) THEN Bare("object", values[i].val)
                       ELSE values[i]]),
               sync |-> FALSE, list |-> <<>>, p |-> Len(P) + 1]
         ELSE [promises |-> P, sync |-> TRUE,
               list |-> [i \in 1..Len(values) |-> values[i].val], p |-> 0]

\* The values the application wraps.
SampleValues == {Obj(1), Obj(2)}

\* What a caller may hand to the combinators: a bare value, a SyncPromise, or
\* a native Promise made earlier.  A run observes one call of a combinator.
Combinable ==
    {Bare("object", Obj(1))}
        \cup {SyncPromise_from(v) : v \in SampleValues}
        \cup {NativePromise(p) : p \in 1..Len(promises)}

Wrappers == {x \in Combinable : isSyncPromise(x) \/ isPromise(x)}

\* What a continuation given to then may return.
ThenResults ==
    {Bare("undefined", Undef), Bare("null", Undef), Bare("number", Obj(1)),
     Bare("object", Obj(2)), SyncPromise_from(Obj(1))}
        \cup {NativePromise(p) : p \in 1..Len(promises)}

ParamLists == UNION {[1..n -> Combinable] : n \in 0..MaxDependencies}

SyncPromiseFrame ==
    UNCHANGED <<variant, heap, connected, calls, v1Vars, storageVars, builderVars,
                vertices, enableDeclarationDisorder, syncFactories, asyncFactories,
                slots, gets>>

\* new Promise(resolve => ...): the application makes a Promise that will
\* fulfil with v.
NewPromise(v) ==
    /\ variant = "syncpromise"
    /\ Len(promises) < MaxPromises
    /\ promises' = Append(promises, [Pending("external") EXCEPT !.val = v])
    /\ UNCHANGED lastCall
    /\ SyncPromiseFrame

\* resolve(v) of such a Promise
Fulfil(p) ==
    /\ variant \in {"syncpromise", "v1container"}
    /\ promises[p].kind = "external"
    /\ promises[p].state = "pending"
    /\ promises' = [promises EXCEPT ![p].state = "fulfilled"]
    /\ UNCHANGED <<variant, heap, connected, calls, v1Vars, storageVars, builderVars,
                   registrationVars, slots, gets>>

\* A Promise.all whose promises are all fulfilled fulfils with their values.
FulfilAll(p) ==
    /\ variant \in {"syncpromise", "v1container"}
    /\ promises[p].kind = "all"
    /\ promises[p].state = "pending"
    /\ AllFulfilled(promises, promises[p].inputs)
    /\ promises' = [promises EXCEPT ![p].state = "fulfilled",
                                    ![p].list = ValuesOf(promises, promises[p].inputs)]
    /\ UNCHANGED <<variant, heap, connected, calls, v1Vars, storageVars, builderVars,
                   registrationVars, slots, gets>>

Call_SyncPromise_all(a, b) ==
    /\ variant = "syncpromise"
    /\ lastCall = <<>>
    /\ Len(promises) < MaxPromises
    /\ LET r == SyncPromise_all(promises, a, b)
       IN /\ promises' = r.promises
          /\ lastCall' = <<[op |-> "all", inputs |-> <<a, b>>, sync |-> r.sync,
                            list |-> r.list, p |-> r.p]>>
    /\ SyncPromiseFrame

Call_SyncPromise_allWithoutTypeChecking(values) ==
    /\ variant = "syncpromise"
    /\ lastCall = <<>>
    /\ Len(promises) < MaxPromises
    /\ LET r == SyncPromise_allWithoutTypeChecking(promises, values)
       IN /\ promises' = r.promises
          /\ lastCall' = <<[op |-> "allWithoutTypeChecking", inputs |-> values,
                            sync |-> r.sync, list |-> r.list, p |-> r.p]>>
    /\ SyncPromiseFrame

\* SyncPromise.from(v).then(() => result)
Call_SyncPromise_then(v, result) ==
    /\ variant = "syncpromise"
    /\ lastCall = <<>>
    /\ LET r == SyncPromise_then(result)
       IN lastCall' = <<[op |-> "then", on |-> v, result |-> result,
                         threw |-> r.threw, value |-> r.value]>>
    /\ UNCHANGED promises
    /\ SyncPromiseFrame

\* ------------------------------------------------ v1 Container
\* The services of a built container, one per vertex and in the order of the
\* vertices: what addService was given (lifeCycle and the kind of factory) and
\* SingletonService.instantiatedService, a SyncPromise of val or the Promise p.
FreshService(type, asyncFactory) ==
    [type |-> type, asyncFactory |-> asyncFactory, invalidate |-> FALSE,
     sync |-> TRUE, val |-> Undef, p |-> 0]

\* The position of the vertex that getVertexStrict finds.
IndexOf(V, key) ==
    CHOOSE i \in 1..Len(V) : V[i].key = key /\ \A j \in 1..(i - 1) : V[j].key # key

\* getNeighbours: the keys of the neighbours of a vertex, as they were given
getNeighbours(V, key) == V[IndexOf(V, key)].neighbours

\* The values of a list as the arguments of a call.
Items(list) == [j \in 1..Len(list) |-> Bare("object", list[j])]

\* The state a resolution runs in, with what the last call answered (ret, or
\* list for the dependencies) or threw.
Running(H, P, L) ==
    [heap |-> H, promises |-> P, slots |-> L, connected |-> connected,
     ret |-> Bare("undefined", Undef), list |-> <<>>, threw |-> ""]

\* this.params.factory(...params): the factory makes its object with `new`,
\* connected; an async factory answers a Promise of it.
CallFactory(S, i, name, args) ==
    LET id == Len(S.heap) + 1
        H  == Append(S.heap, [by |-> "factory", of |-> name, args |-> args])
    IN IF S.slots[i].asyncFactory
         THEN [S EXCEPT !.heap = H, !.connected = @ \cup {id},
                        !.promises = Append(@, [Pending("external") EXCEPT !.val = Obj(id)]),
                        !.ret = NativePromise(Len(S.promises) + 1)]
         ELSE [S EXCEPT !.heap = H, !.connected = @ \cup {id},
                        !.ret = Bare("object", Obj(id))]

\* innerService ? invalidate(innerService) : false, the registered predicate
\* being service => !service.isConnected()
isInvalid(S, i) ==
    /\ Truthy(S.slots[i].val)
    /\ S.slots[i].invalidate
    /\ customInvalidate(S, S.slots[i].val)

\* SingletonService.instantiate with no repair; an invalidate predicate is
\* only registered on services made by a synchronous factory.  A slot that is
\* empty or whose instance is invalid takes what the factory makes.
\* On a Promise the three chained then make a Promise that fulfils with the
\* value of the one kept, and is kept in its place.
instantiateSingleton(S, i, name, args) ==
    LET slot == S.slots[i]
    IN IF slot.sync
         THEN IF slot.val = Undef \/ isInvalid(S, i)
                THEN LET r == CallFactory(S, i, name, args)
                     IN [r EXCEPT !.slots[i].sync = ~isPromise(r.ret),
                                  !.slots[i].val = r.ret.val,
                                  !.slots[i].p = r.ret.p]
                ELSE [S EXCEPT !.ret = Bare("object", slot.val)]
         ELSE [S EXCEPT !.promises = Append(@, [Pending("follow") EXCEPT !.on = slot.p]),
                        !.slots[i].p = Len(S.promises) + 1,
                        !.ret = NativePromise(Len(S.promises) + 1)]

\* service.value.instantiate(...dependencies)
instantiate(S, i, name, args) ==
    IF S.slots[i].type = "Transient"
      THEN CallFactory(S, i, name, args)
      ELSE instantiateSingleton(S, i, name, args)

\* get answering with the wrapper it holds
Unwrapped_Kept(t) == t

\* isSyncPromise(serviceInstancePromise) ? serviceInstancePromise.unwrap() : serviceInstancePromise
Unwrapped(t) == IF isSyncPromise(t) THEN Bare("object", t.val) ELSE t

RECURSIVE get(_, _, _)
RECURSIVE getDependencies(_, _, _, _)

\* getNeighbours(serviceName).map(dependencyName => this.get(dependencyName.key))
getDependencies(S, V, names, acc) ==
    IF names = <<>> THEN [S EXCEPT !.list = acc]
    ELSE LET r == get(S, V, Head(names))
         IN IF r.threw # "" THEN r
            ELSE getDependencies(r, V, Tail(names), Append(acc, r.ret))

\* Container.get
get(S, V, serviceName) ==
    IF ~isVertexExisting(V, serviceName) THEN [S EXCEPT !.threw = "Error"]
    ELSE LET i == IndexOf(V, serviceName)
             D == getDependencies(S, V, getNeighbours(V, serviceName), <<>>)
             dependencies == D.list
         IN IF D.threw # "" THEN D
            ELSE IF \E j \in 1..Len(dependencies) : isPromise(dependencies[j])
              THEN LET all == Promise_all(D.promises, dependencies)
                       then == Append(all, [Pending("then") EXCEPT !.on = Len(all),
                                                                    !.of = serviceName])
                   IN [D EXCEPT !.promises = then, !.ret = NativePromise(Len(then))]
              ELSE LET c == SyncPromise_allWithoutTypeChecking(D.promises, dependencies)
                       r == instantiate(D, i, serviceName, Items(c.list))
                   IN [r EXCEPT !.ret = Unwrapped(SyncPromise_then(r.ret).value)]

\* The continuation called with the Promises it was to wait for
Awaited_Raw(P, p) == P[p].inputs

\* What Promise.all hands to the continuation: the values it fulfilled with
Awaited(P, p) == Items(P[p].list)

V1ContainerFrame ==
    UNCHANGED <<variant, connected, calls, v1Vars, storageVars, builderVars,
                registrationVars>>

\* One call of get or getAsync on the container, with what it answered.
Resolution(entry, serviceName) ==
    /\ variant = "v1container"
    /\ Len(gets) < MaxGets
    /\ LET r == get(Running(heap, promises, slots), vertices, serviceName)
       IN /\ heap' = r.heap
          /\ promises' = r.promises
          /\ slots' = r.slots
          /\ gets' = Append(gets, [entry |-> entry, name |-> serviceName,
                                   threw |-> r.threw, ret |-> r.ret,
                                   scheduled |-> Len(r.promises) - Len(promises)])
    /\ V1ContainerFrame

\* Container.get
V1Container_get(serviceName) == Resolution("get", serviceName)

\* Container.getAsync: return this.get(serviceName)
V1Container_getAsync(serviceName) == Resolution("getAsync", serviceName)

\* dependenciesPromise.then(dependencies => service.value.instantiate(...dependencies))
\* once Promise.all has fulfilled: the Promise of then fulfils with what
\* instantiate answers, or waits for the Promise it answers.
RunThen(p) ==
    /\ variant = "v1container"
    /\ promises[p].kind = "then"
    /\ promises[p].state = "pending"
    /\ promises[promises[p].on].state = "fulfilled"
    /\ LET i == IndexOf(vertices, promises[p].of)
           r == instantiate(Running(heap, promises, slots), i, promises[p].of,
                            Awaited(promises, promises[p].on))
       IN /\ heap' = r.heap
          /\ slots' = r.slots
          /\ promises' = IF isPromise(r.ret)
                           THEN [r.promises EXCEPT ![p].kind = "follow", ![p].on = r.ret.p]
                           ELSE [r.promises EXCEPT ![p].state = "fulfilled",
                                                   ![p].val = r.ret.val]
    /\ UNCHANGED gets
    /\ V1ContainerFrame

\* A Promise that waits for another fulfils with its value.
Follow(p) ==
    /\ variant = "v1container"
    /\ promises[p].kind = "follow"
    /\ promises[p].state = "pending"
    /\ promises[promises[p].on].state = "fulfilled"
    /\ promises' = [promises EXCEPT ![p].state = "fulfilled",
                                    ![p].val = promises[promises[p].on].val]
    /\ UNCHANGED <<heap, slots, gets>>
    /\ V1ContainerFrame

\* container.get(serviceName) on a container of Singletons made by synchronous
\* factories, some registered with an invalidate predicate.
Dependents_get(serviceName) ==
    /\ variant = "dependents"
    /\ Len(gets) < MaxCalls
    /\ LET r == get(Running(heap, promises, slots), vertices, serviceName)
       IN /\ Len(r.heap) <= MaxInstances
          /\ heap' = r.heap
          /\ connected' = r.connected
          /\ promises' = r.promises
          /\ slots' = r.slots
          /\ gets' = Append(gets, [entry |-> "get", name |-> serviceName,
                                   threw |-> r.threw, ret |-> r.ret,
                                   slots |-> r.slots])
    /\ UNCHANGED <<variant, calls, v1Vars, storageVars, builderVars, registrationVars>>

\* The graphs createContainerBuilder().addService(...)... can build, the
\* services named in the order of their registration.
RECURSIVE BuiltGraphs(_)
BuiltGraphs(n) ==
    IF n = 0 THEN {<<>>}
    ELSE LET smaller == BuiltGraphs(n - 1)
             name == IF n = 1 THEN "a" ELSE IF n = 2 THEN "b" ELSE "c"
         IN smaller \cup
            {addService(V, name, dependsOn).vertices :
                V \in {W \in smaller : Len(W) = n - 1}, dependsOn \in DependencyLists}

ServiceLists(n) ==
    [1..n -> {FreshService(type, asyncFactory) :
                  type \in LifeCycles, asyncFactory \in BOOLEAN}]

\* ------------------------------------------------ ServiceStorage.destroyAll
\* The value of a singletonMap entry: the instance, or the Promise an async
\* factory or refresh answered, which stays a Promise once it has fulfilled.
Stored(entry) ==
    IF entry.sync THEN Bare("object", entry.val) ELSE NativePromise(entry.call)

\* destroyAll: for (const [ , { destroy, value } ] of storedServicesEntries)
\* await Promise.resolve(destroy(value)) -- what each destroy is called with,
\* the entries of singletonMap before those of semiTransientMap.
destroyAll(M, T) ==
    (IF M.sync /\ M.val = Undef THEN <<>> ELSE <<Stored(M)>>)
        \o [i \in 1..Len(T) |-> Bare("object", T[i].value)]

ServiceStorage_destroyAll ==
    /\ variant = "storage"
    /\ lastCall = <<>>
    /\ lastCall' = <<[op |-> "destroyAll",
                      destroyed |-> destroyAll(singletonMap, semiTransientMap)]>>
    /\ UNCHANGED <<variant, resolutionVars, heap, connected, calls, v1Vars, storageVars,
                   builderVars, vertices, enableDeclarationDisorder, syncFactories,
                   asyncFactories>>

\* ------------------------------------------------ Container of a ContainerBuilder
\* What fromFactory stores for the calls tried.
DeclaredRegistrations ==
    {[name |-> name, dependencies |-> c.dependencies, lifeCycle |-> c.options.lifeCycle,
      repair |-> c.options.repair, destroy |-> c.options.destroy] :
        name \in Keys, c \in DeclareCalls}

\* The classes build() may hand to a container: what up to n calls of
\* fromFactory leave, none of them throwing.
RECURSIVE DeclaredClasses(_, _)
DeclaredClasses(disorder, n) ==
    IF n = 0 THEN {<<>>}
    ELSE LET smaller == DeclaredClasses(disorder, n - 1)
         IN smaller \cup
            {fromFactory(C, disorder, reg).classes :
                C \in {D \in smaller : Len(D) = n - 1}, reg \in DeclaredRegistrations}

RECURSIVE getWithin(_, _, _), getAllWithin(_, _, _, _)

\* dependencies.map(dependency => this.get(dependency))
getAllWithin(S, deps, acc, path) ==
    IF deps = <<>> \/ S.err # "" THEN [S EXCEPT !.args = acc]
    ELSE LET S1 == getWithin(S, Head(deps), path)
         IN getAllWithin(S1, Tail(deps), Append(acc, S1.ret), path)

\* Container.get called inside the calls of get for the names of path.  get
\* changes nothing before it calls itself for the dependencies, so a name met
\* again on the path is met again without end: the recursion stops only when
\* the engine is out of stack (RangeError).
getWithin(S, name, path) ==
    IF isDestroyed THEN [S EXCEPT !.err = "CannotRetrieveDestroyedServiceError"]
    ELSE IF ~Registered(name) THEN [S EXCEPT !.err = "NoServiceFoundError"]
    ELSE IF name \in path THEN [S EXCEPT !.err = "RangeError"]
    ELSE LET S1 == getAllWithin(S, Service(name).dependencies, <<>>, path \cup {name})
         IN IF S1.err # "" THEN S1
            ELSE IF Service(name).lifeCycle = "Singleton"
                   THEN Singleton_instantiate(S1, name, S1.args)
                   ELSE Transient_instantiate(S1, name, S1.args)

\* builder.build().get(name)
BuiltContainer_get(name) ==
    /\ variant = "built"
    /\ Len(gets) < MaxGets
    /\ LET S == getWithin(BuilderHere, name, {})
       IN /\ InstallBuilder(S)
          /\ gets' = Append(gets, [entry |-> "get", name |-> name, threw |-> S.err,
                                   value |-> IF S.err = "" THEN S.ret ELSE Undef])
    /\ UNCHANGED <<variant, promises, slots, classes, isDestroyed, ops, v1Vars,
                   storageVars, registrationVars>>

\* ------------------------------------------------ ScopedContainer
\* A Container built by createContainerBuilder() (the parent) and the
\* ScopedContainer that createScopedContainerBuilder(parent) builds over it
\* (the child: the parent and the inner Container of the scoped builder).
\* syncFactories[o] and asyncFactories[o] are the maps of container o, which
\* it shares with its builder; slots[o][partition][key] is resolvedSingletons
\* of its SingletonFactoryRegistry of that partition, <<>> without the key.
Owners == {"parent", "child"}

ScopedKeys == {"a", "b"}

Partitions == {"sync", "async"}

\* What a factory does with the provider it is given: nothing, or one or two
\* calls of provider.get or provider.getAsync for the other service.
Requests == [via : {"get", "getAsync"}, key : ScopedKeys]

Asks == {<<>>} \cup {<<r>> : r \in Requests} \cup {<<r, q>> : r, q \in Requests}

Scripts == {f \in [ScopedKeys -> Asks] :
               \A key \in ScopedKeys : \A i \in 1..Len(f[key]) : f[key][i].key # key}

\* The Promise an async factory answers, fulfilled with v.
PromiseOf(v) == [kind |-> "Promise", val |-> v, p |-> 0]

\* this.syncFactoriesRegistry / this.asyncFactoriesRegistry of container o
RegistryOf(o, partition) ==
    IF partition = "sync" THEN syncFactories[o] ELSE asyncFactories[o]

\* Container.get / getAsync: the Singleton registry is asked for the factory
\* before the Transient one; "" when neither has the key.
FoundIn(o, partition, key) ==
    IF HasFactory(RegistryOf(o, partition)["Singleton"], key) THEN "Singleton"
    ELSE IF HasFactory(RegistryOf(o, partition)["Transient"], key) THEN "Transient"
    ELSE ""

\* Container.has
Container_has(o, key) == FoundIn(o, "sync", key) # ""

\* Container.hasAsync
Container_hasAsync(o, key) == FoundIn(o, "async", key) # ""

\* The containers behind the provider that container o hands to its
\* factories: createSyncServiceProvider(container) for the parent, the
\* combined provider [ this.innerContainer, container ] for the inner
\* Container of a ScopedContainerBuilder.
createProvider(o) == IF o = "child" THEN <<"parent", "child">> ELSE <<o>>

\* A sync provider that also has the methods of an async one
SyncServiceProvider_Wide == {"get", "has", "getAsync", "hasAsync"}

\* The methods of SyncServiceProvider and CombinedSyncServiceProvider
SyncServiceProvider == {"get", "has"}

\* The methods of AsyncServiceProvider and CombinedAsyncServiceProvider
AsyncServiceProvider == {"get", "has", "getAsync", "hasAsync"}

\* this.providers.find(p => p.has(key)) or p.hasAsync(key): the position of
\* the first container that has the key in the partition, 0 when none has.
FindProvider(providers, partition, key) ==
    LET having == {i \in 1..Len(providers) : FoundIn(providers[i], partition, key) # ""}
    IN IF having = {} THEN 0 ELSE CHOOSE i \in having : \A j \in having : i <= j

\* The state a resolution runs in.
Resolving ==
    [heap |-> heap, slots |-> slots, events |-> <<>>, args |-> <<>>,
     ret |-> Bare("undefined", Undef), threw |-> ""]

RECURSIVE Container_resolve(_, _, _, _, _, _, _)
RECURSIVE Provider_call(_, _, _, _, _, _, _)
RECURSIVE RunFactory(_, _, _, _, _, _, _, _)

\* The body of a factory: its calls on the provider, in order, each result
\* becoming a part of the service it makes; what a call throws is not caught.
RunFactory(S, script, o, partition, asks, e, path, acc) ==
    IF asks = <<>> THEN [S EXCEPT !.args = acc]
    ELSE LET r == Provider_call(S, script, o, partition, Head(asks), e, path)
         IN IF r.threw # "" THEN r
            ELSE RunFactory(r, script, o, partition, Tail(asks), e, path, Append(acc, r.ret))

\* provider[via](key), the provider being the one a factory of the given
\* partition of container o receives: a method the provider has not is not
\* a function; get and getAsync go to the first container that has the key.
Provider_call(S, script, o, partition, ask, e, path) ==
    LET methods == IF partition = "sync" THEN SyncServiceProvider ELSE AsyncServiceProvider
        wanted == IF ask.via = "get" THEN "sync" ELSE "async"
        i == FindProvider(createProvider(o), wanted, ask.key)
    IN IF ask.via \notin methods THEN [S EXCEPT !.threw = "TypeError"]
       ELSE IF i = 0 THEN [S EXCEPT !.threw = "ServiceNotFoundError"]
       ELSE Container_resolve(S, script, createProvider(o)[i], wanted, ask.key, e, path)

\* Container.get (partition "sync") and Container.getAsync ("async") of
\* container o, called by the factory of event e (0: by the application).
\* The factory of a Singleton is wrapped by SingletonFactoryRegistry.wrapFactory:
\* it is called when resolvedSingletons has not the key, and what it returns
\* is kept.  A factory that reaches itself again never returns (RangeError).
Container_resolve(S, script, o, partition, key, e, path) ==
    LET lc == FoundIn(o, partition, key)
        me == <<o, partition, key>>
    IN IF lc = "" THEN [S EXCEPT !.threw = "ServiceNotFoundError"]
       ELSE IF lc = "Singleton" /\ S.slots[o][partition][key] # <<>>
         THEN [S EXCEPT !.ret = S.slots[o][partition][key][1]]
       ELSE IF me \in path THEN [S EXCEPT !.threw = "RangeError"]
       ELSE LET S1 == [S EXCEPT !.events = Append(@,
                          [owner |-> o, partition |-> partition, key |-> key, by |-> e])]
                S2 == RunFactory(S1, script, o, partition, script[key], Len(S1.events),
                                 path \cup {me}, <<>>)
                v == IF partition = "sync" THEN Bare("object", Obj(Len(S2.heap) + 1))
                     ELSE PromiseOf(Obj(Len(S2.heap) + 1))
            IN IF S2.threw # "" THEN S2
               ELSE [S2 EXCEPT !.heap = Append(@, [by |-> "factory", of |-> key,
                                                   args |-> S2.args]),
                               !.ret = v,
                               !.slots[o][partition][key] =
                                   IF lc = "Singleton" THEN <<v>> ELSE @]

ScopedFrame ==
    UNCHANGED <<variant, connected, calls, promises, v1Vars, storageVars, builderVars,
                vertices, enableDeclarationDisorder, lastCall>>

\* One call of get or getAsync by the application, with what it answered and
\* the factories it called.  A run observes one resolution.
Resolve(entry, on, r) ==
    /\ variant = "scoped"
    /\ gets = <<>>
    /\ heap' = r.heap
    /\ slots' = r.slots
    /\ gets' = Append(gets, [entry |-> entry, on |-> on, threw |-> r.threw,
                             ret |-> r.ret, events |-> r.events])
    /\ UNCHANGED <<syncFactories, asyncFactories>>
    /\ ScopedFrame

\* parent.get(key)
ParentContainer_get(key, script) ==
    Resolve("get", "parent", Container_resolve(Resolving, script, "parent", "sync", key, 0, {}))

\* parent.getAsync(key)
ParentContainer_getAsync(key, script) ==
    Resolve("getAsync", "parent",
            Container_resolve(Resolving, script, "parent", "async", key, 0, {}))

\* ScopedContainer.get / getAsync: ServiceNotFoundError when neither the
\* parent nor the inner container has the key, else the combined provider of
\* [ parentProvider, innerProvider ] answers, the parent first.
ScopedContainer_resolve(script, partition, key) ==
    LET providers == <<"parent", "child">>
        i == FindProvider(providers, partition, key)
    IN IF i = 0 THEN [Resolving EXCEPT !.threw = "ServiceNotFoundError"]
       ELSE Container_resolve(Resolving, script, providers[i], partition, key, 0, {})

ScopedContainer_get(key, script) ==
    Resolve("get", "child", ScopedContainer_resolve(script, "sync", key))

ScopedContainer_getAsync(key, script) ==
    Resolve("getAsync", "child", ScopedContainer_resolve(script, "async", key))

\* A scoped builder that registers in the maps of the container it was given
ScopedContainerBuilder_builder_OfParent == "parent"

\* ScopedContainerBuilder.builder: the builder its constructor makes with
\* createContainerBuilder, whose maps become those of the inner Container.
ScopedContainerBuilder_builder == "child"

\* ScopedContainerBuilder.addFactory / addConstructor / addAsyncFactory:
\* this.builder.addFactory(key, factory, lifeCycle), and so on.  addFactory
\* and addAsyncFactory throw ServiceAlreadyRegisteredError when one of the
\* four maps of that builder has the key, addConstructor never does.
ScopedRegister(op, key, lc) ==
    LET o == ScopedContainerBuilder_builder
        rejected == op # "addConstructor"
                        /\ isAlreadyRegistered(syncFactories[o], asyncFactories[o], key)
    IN /\ variant = "scoped"
       /\ gets = <<>>
       /\ RegisteredCount(syncFactories[o], asyncFactories[o]) < MaxRegistrations
       /\ syncFactories' =
             IF rejected \/ op = "addAsyncFactory" THEN syncFactories
             ELSE [syncFactories EXCEPT ![o][lc] =
                      SetFactory(@, key, IF op = "addFactory" THEN "factory"
                                         ELSE "constructor")]
       /\ asyncFactories' =
             IF rejected \/ op # "addAsyncFactory" THEN asyncFactories
             ELSE [asyncFactories EXCEPT ![o][lc] = SetFactory(@, key, "asyncFactory")]
       /\ UNCHANGED <<heap, slots, gets>>
       /\ ScopedFrame

ScopedContainerBuilder_addFactory(key, lc) == ScopedRegister("addFactory", key, lc)

ScopedContainerBuilder_addConstructor(key, lc) == ScopedRegister("addConstructor", key, lc)

ScopedContainerBuilder_addAsyncFactory(key, lc) == ScopedRegister("addAsyncFactory", key, lc)

\* What createContainerBuilder().add...(...).build() can hold for one key:
\* nothing, or one factory in one of the four maps.
ParentChoices == {<<>>} \cup {<<[partition |-> pt, lifeCycle |-> lc]>> :
                                  pt \in Partitions, lc \in LifeCycles}

\* The maps of one partition of the parent, given what was chosen for each key.
ParentMaps(choice, partition) ==
    [lc \in LifeCycles |->
        LET has(key) == choice[key] # <<>> /\ choice[key] = <<[partition |-> partition,
                                                                lifeCycle |-> lc]>>
            form == IF partition = "sync" THEN "factory" ELSE "asyncFactory"
        IN (IF has("a") THEN <<[key |-> "a", form |-> form]>> ELSE <<>>)
             \o (IF has("b") THEN <<[key |-> "b", form |-> form]>> ELSE <<>>)]

\* ------------------------------------------------ the slot of one Singleton
\* One Singleton on its own, with a factory that may return anything: the
\* Singleton of unnamed/part_012, the v1 SingletonService with its default
\* callbacks, and the SingletonFactoryRegistry of unnamed/part_002.  The run
\* is a run of the class named by "variant"; "slots" is <<>> (no entry in the
\* map of resolved singletons) or <<x>>, x being what the slot holds.
SlotClasses == {"Singleton", "SingletonService", "SingletonFactoryRegistry"}

\* What a call of the factory does: it returns undefined, null, 0, false, '',
\* a new object or a new Promise (that will fulfil with a new object, or
\* reject), or it throws.
FactoryOutcomes ==
    {"undefined", "null", "0", "false", "''", "object", "throws", "fulfils", "rejects"}

\* !!value
ToBoolean(x) ==
    IF x.kind \in {"undefined", "null"} THEN FALSE
    ELSE IF x.kind \in {"number", "boolean"} THEN x.val # Obj(0)
    ELSE IF x.kind = "string" THEN x.val # <<>>
    ELSE TRUE

\* value === null || value === undefined
isNullish(x) == x.kind \in {"undefined", "null"}

\* The n-th call of the factory, doing `outcome`, with the promises P made so far.
factory(P, n, outcome) ==
    IF outcome = "throws"
      THEN [threw |-> "Error", value |-> Bare("undefined", Undef), promises |-> P]
    ELSE IF outcome \in {"fulfils", "rejects"}
      THEN [threw |-> "", value |-> NativePromise(Len(P) + 1),
            promises |-> Append(P, [Pending("external") EXCEPT !.val = Obj(n),
                                                               !.of = outcome])]
    ELSE [threw |-> "", promises |-> P,
          value |-> IF outcome = "undefined" THEN Bare("undefined", Undef)
                    ELSE IF outcome = "null" THEN Bare("null", Undef)
                    ELSE IF outcome = "0" THEN Bare("number", Obj(0))
                    ELSE IF outcome = "false" THEN Bare("boolean", Obj(0))
                    ELSE IF outcome = "''" THEN Bare("string", <<>>)
                    ELSE Bare("object", Obj(n))]

\* How many times the factory has been called.
FactoryCalls == Cardinality({k \in 1..Len(ops) : ops[k].nFactory = 1})

\* What one resolution amounts to: the slot after it, what it returned or
\* threw, and whether it called the factory.
Resolved(slot, r, called, outcome) ==
    [slots |-> IF r.threw = "" THEN <<r.value>> ELSE slot,
     promises |-> r.promises, threw |-> r.threw, value |-> r.value,
     nFactory |-> IF called THEN 1 ELSE 0,
     outcome |-> IF called THEN outcome ELSE "none"]

\* part_012 Singleton.instantiate, with no repair callback:
\* if (!this.instance) this.instance = this.factory(...params)
\* this.instance = this.repair?.(this.instance, ...params) ?? this.instance
Singleton_instantiateSlot(slot, P, n, outcome) ==
    IF ~ToBoolean(slot[1])
      THEN Resolved(slot, factory(P, n, outcome), TRUE, outcome)
      ELSE Resolved(slot, [threw |-> "", value |-> slot[1], promises |-> P], FALSE, outcome)

\* part_002 SingletonFactoryRegistry.wrapFactory:
\* if (!this.resolvedSingletons.has(key)) this.resolvedSingletons.set(key, factory(container))
\* return this.resolvedSingletons.get(key)
wrapFactory(slot, P, n, outcome) ==
    IF slot = <<>>
      THEN Resolved(slot, factory(P, n, outcome), TRUE, outcome)
      ELSE Resolved(slot, [threw |-> "", value |-> slot[1], promises |-> P], FALSE, outcome)

\* v1 SingletonService.instantiate with the default invalidate and no repair.
\* The slot is a SyncPromise of x (slot[1] = x) or a native Promise.  On a
\* SyncPromise the three continuations run at once: isInvalid is false,
\* reInstantiated is undefined, and the last one returns
\* `reInstantiated ?? instantiated ?? this.params.factory(...params)`, which
\* SyncPromise.then wraps unless it is thenable (`'then' in null` throws).
\* On a native Promise the slot becomes the Promise of the same chain.
SingletonService_instantiateSlot(slot, P, n, outcome) ==
    IF isPromise(slot[1])
      THEN Resolved(slot,
              [threw |-> "", value |-> NativePromise(Len(P) + 1),
               promises |-> Append(P, [Pending("then") EXCEPT !.on = slot[1].p])],
              FALSE, outcome)
    ELSE IF ~isNullish(slot[1])
      THEN Resolved(slot, [threw |-> "", value |-> slot[1], promises |-> P], FALSE, outcome)
    ELSE LET r == factory(P, n, outcome)
         IN Resolved(slot,
                IF r.threw = "" /\ r.value.kind = "null"
                  THEN [r EXCEPT !.threw = "TypeError"]
                  ELSE r,
                TRUE, outcome)

\* The slot before the first resolution: an unset field, SyncPromise.from(undefined),
\* or a map without the key.
EmptySlot ==
    IF variant = "SingletonFactoryRegistry" THEN <<>> ELSE <<Bare("undefined", Undef)>>

\* instantiate(), or the wrapped factory of the registry
Slot_instantiate(outcome) ==
    /\ variant \in SlotClasses
    /\ Len(ops) < MaxCalls
    /\ Len(promises) < MaxPromises
    /\ LET n == FactoryCalls + 1
           R == IF variant = "Singleton"
                  THEN Singleton_instantiateSlot(slots, promises, n, outcome)
                ELSE IF variant = "SingletonService"
                  THEN SingletonService_instantiateSlot(slots, promises, n, outcome)
                ELSE wrapFactory(slots, promises, n, outcome)
       IN /\ R.nFactory = 0 => outcome = "object"
          /\ slots' = R.slots
          /\ promises' = R.promises
          /\ ops' = Append(ops,
                [op |-> "instantiate", before |-> slots,
                 failed |-> IF slots = <<>> THEN FALSE
                            ELSE IF isPromise(slots[1])
                              THEN promises[slots[1].p].state = "rejected"
                            ELSE FALSE,
                 outcome |-> R.outcome, nFactory |-> R.nFactory,
                 threw |-> R.threw, value |-> R.value, after |-> R.slots])
    /\ UNCHANGED <<variant, heap, connected, calls, gets, classes, instance, isDestroyed,
                   pendingDelete, v1Vars, storageVars, registrationVars>>

\* The Promise a factory returned fulfils or rejects.
FactoryPromise_settle(p) ==
    /\ variant \in SlotClasses
    /\ promises[p].kind = "external"
    /\ promises[p].state = "pending"
    /\ promises' = [promises EXCEPT ![p].state =
                        IF promises[p].of = "rejects" THEN "rejected" ELSE "fulfilled"]
    /\ UNCHANGED <<variant, heap, connected, calls, slots, gets, builderVars, v1Vars,
                   storageVars, registrationVars>>

\* The Promise of a SingletonService.instantiate chained on a native Promise
\* settles as that Promise did: a rejection skips the continuations, a
\* fulfilment with an instance makes them return the instance.
SingletonService_settle(p) ==
    /\ variant = "SingletonService"
    /\ promises[p].kind = "then"
    /\ promises[p].state = "pending"
    /\ promises[promises[p].on].state # "pending"
    /\ promises' = [promises EXCEPT ![p].state = promises[promises[p].on].state,
                                    ![p].val = promises[promises[p].on].val]
    /\ UNCHANGED <<variant, heap, connected, calls, slots, gets, builderVars, v1Vars,
                   storageVars, registrationVars>>

\* ------------------------------------------------ the application
\* The connection of a service object is lost (DbConnection._isConnected = false).
\* Only the invalidate predicate of a singleton ever reads the flag.
Disconnect(i) ==
    /\ \/ variant = "v1" /\ params.type = "Singleton"
       \/ variant = "storage" /\ lifeCycle.type = "Singleton"
       \/ variant = "dependents"
    /\ i \in connected
    /\ connected' = connected \ {i}
    /\ UNCHANGED <<variant, resolutionVars, heap, calls, v1Vars, storageVars, builderVars, registrationVars>>

\* ------------------------------------------------ specifications
IdleV1 ==
    /\ params = [type |-> "Singleton", invalidate |-> FALSE, repair |-> "none",
                 destroy |-> FALSE, asyncFactory |-> FALSE, asyncRepair |-> FALSE]
    /\ instantiatedService = [sync |-> TRUE, val |-> Undef, call |-> 0]
    /\ destroys = <<>>
    /\ transientCalls = <<>>

IdleStorage ==
    /\ lifeCycle = [type |-> "Transient", invalidate |-> FALSE, refresh |-> "none",
                    asyncFactory |-> FALSE, asyncRefresh |-> FALSE,
                    timeBetweenRefresh |-> 0]
    /\ singletonMap = [sync |-> TRUE, val |-> Undef, call |-> 0]
    /\ semiTransientMap = <<>>
    /\ storageOps = <<>>

IdleRegistration ==
    /\ vertices = <<>>
    /\ enableDeclarationDisorder = FALSE
    /\ syncFactories = <<>>
    /\ asyncFactories = <<>>
    /\ lastCall = <<>>

IdleBuilder ==
    /\ classes = <<>>
    /\ instance = [n \in Names |-> Undef]
    /\ isDestroyed = FALSE
    /\ pendingDelete = {}
    /\ ops = <<>>

EmptyHeap ==
    /\ heap = <<>>
    /\ connected = {}
    /\ calls = <<>>
    /\ promises = <<>>
    /\ slots = <<>>
    /\ gets = <<>>

\* new SingletonService(params) / new TransientService(params)
InitV1 ==
    /\ variant = "v1"
    /\ EmptyHeap
    /\ IdleRegistration
    /\ params \in ParamSets
    /\ instantiatedService = [sync |-> TRUE, val |-> Undef, call |-> 0]
    /\ destroys = <<>>
    /\ transientCalls = <<>>
    /\ IdleStorage
    /\ IdleBuilder

NextV1 ==
    \/ SingletonService_instantiate
    \/ \E k \in 1..Len(calls) : ContinueIsInvalid(k)
    \/ \E k \in 1..Len(calls) : ContinueReInstantiate(k)
    \/ \E k \in 1..Len(calls) : SettleReInstantiated(k)
    \/ \E k \in 1..Len(calls) : ContinuePick(k)
    \/ \E k \in 1..Len(calls) : SettleFactory(k)
    \/ SingletonService_destroy
    \/ \E d \in 1..Len(destroys) : ContinueDestroy(d)
    \/ TransientService_instantiate
    \/ \E i \in 1..Len(heap) : Disconnect(i)

SpecV1 == InitV1 /\ [][NextV1]_vars

\* createServiceStorage(), used with one identifier and one lifecycle
InitStorage ==
    /\ variant = "storage"
    /\ EmptyHeap
    /\ IdleRegistration
    /\ lifeCycle \in StorageLifeCycles
    /\ singletonMap = [sync |-> TRUE, val |-> Undef, call |-> 0]
    /\ semiTransientMap = <<>>
    /\ storageOps = <<>>
    /\ IdleV1
    /\ IdleBuilder

NextStorage ==
    \/ ServiceStorage_getOrInstantiate_Singleton
    \/ \E k \in 1..Len(calls) : ReloadContinueIsInvalid(k)
    \/ \E k \in 1..Len(calls) : ReloadContinueRefresh(k)
    \/ \E k \in 1..Len(calls) : ReloadSettle(k)
    \/ ServiceStorage_getOrInstantiate_SemiTransient
    \/ ServiceStorage_getOrInstantiate_Transient
    \/ \E i \in 1..Len(heap) : Disconnect(i)

SpecStorage == InitStorage /\ [][NextStorage]_vars

\* A storage in use that is destroyed at some point.
NextStorageDestroy ==
    \/ NextStorage
    \/ ServiceStorage_destroyAll

SpecStorageDestroy == InitStorage /\ [][NextStorageDestroy]_vars

\* newBuilder().fromFactory(...).fromFactory(...).build()
InitBuilder ==
    /\ variant = "builder"
    /\ EmptyHeap
    /\ IdleRegistration
    /\ \E db \in Registrations("db", <<>>), repo \in Registrations("repo", <<"db">>) :
          classes = <<db, repo>>
    /\ instance = [n \in Names |-> Undef]
    /\ isDestroyed = FALSE
    /\ pendingDelete = {}
    /\ ops = <<>>
    /\ IdleV1
    /\ IdleStorage

NextBuilder ==
    \/ \E name \in Names : Container_get(name)
    \/ Container_destroy
    \/ \E name \in Names : SettleDestroyed(name)

SpecBuilder == InitBuilder /\ [][NextBuilder]_vars

\* new DirectedAcyclicGraph()
InitGraph ==
    /\ variant = "graph"
    /\ EmptyHeap
    /\ IdleRegistration
    /\ IdleV1
    /\ IdleStorage
    /\ IdleBuilder

NextGraph ==
    \E key \in Keys, neighbours \in DependencyLists :
        DirectedAcyclicGraph_addVertex(key, neighbours)

\* A graph that is filled and traversed.
NextTraverse ==
    \/ NextGraph
    \/ \E key \in Keys : DirectedAcyclicGraph_traverse(key)

SpecTraverse == InitGraph /\ [][NextTraverse]_vars

\* createContainerBuilder()
InitV1Builder ==
    /\ variant = "v1builder"
    /\ EmptyHeap
    /\ IdleRegistration
    /\ IdleV1
    /\ IdleStorage
    /\ IdleBuilder

NextV1Builder ==
    \E name \in Keys, dependsOn \in DependencyLists :
        ContainerBuilder_addService(name, dependsOn)

\* newBuilder(options)
InitDeclare ==
    /\ variant = "declare"
    /\ EmptyHeap
    /\ IdleV1
    /\ IdleStorage
    /\ IdleBuilder
    /\ vertices = <<>>
    /\ enableDeclarationDisorder \in BOOLEAN
    /\ syncFactories = <<>>
    /\ asyncFactories = <<>>
    /\ lastCall = <<>>

NextDeclare ==
    \/ \E name \in Keys, c \in DeclareCalls :
          ContainerBuilder_fromFactory(name, c.dependencies, c.options)
    \/ ContainerBuilder_checkDependenciesValidity

\* createContainerBuilder() of Implementation/Container.ts, without loaders
InitRegistrar ==
    /\ variant = "registrar"
    /\ EmptyHeap
    /\ IdleV1
    /\ IdleStorage
    /\ IdleBuilder
    /\ vertices = <<>>
    /\ enableDeclarationDisorder = FALSE
    /\ syncFactories = [lc \in LifeCycles |-> <<>>]
    /\ asyncFactories = [lc \in LifeCycles |-> <<>>]
    /\ lastCall = <<>>

NextRegistrar ==
    \/ \E key \in Keys, lc \in LifeCycles : ContainerBuilder_addFactory(key, lc)
    \/ \E key \in Keys, lc \in LifeCycles : ContainerBuilder_addConstructor(key, lc)
    \/ \E key \in Keys, lc \in LifeCycles : ContainerBuilder_addAsyncFactory(key, lc)

SpecRegistration ==
    /\ InitGraph \/ InitV1Builder \/ InitDeclare \/ InitRegistrar
    /\ [][NextGraph \/ NextV1Builder \/ NextDeclare \/ NextRegistrar]_vars

\* SyncPromise and native Promises in the hands of a caller
InitSyncPromise ==
    /\ variant = "syncpromise"
    /\ EmptyHeap
    /\ IdleRegistration
    /\ IdleV1
    /\ IdleStorage
    /\ IdleBuilder

NextSyncPromise ==
    \/ \E v \in SampleValues : NewPromise(v)
    \/ \E p \in 1..Len(promises) : Fulfil(p)
    \/ \E p \in 1..Len(promises) : FulfilAll(p)
    \/ \E a, b \in Wrappers : Call_SyncPromise_all(a, b)
    \/ \E values \in ParamLists : Call_SyncPromise_allWithoutTypeChecking(values)
    \/ \E v \in SampleValues, result \in ThenResults : Call_SyncPromise_then(v, result)

SpecSyncPromise == InitSyncPromise /\ [][NextSyncPromise]_vars

\* createContainerBuilder().addService(...)....build()
InitV1Container ==
    /\ variant = "v1container"
    /\ heap = <<>> /\ connected = {} /\ calls = <<>>
    /\ promises = <<>> /\ gets = <<>>
    /\ vertices \in BuiltGraphs(Cardinality(Keys))
    /\ slots \in ServiceLists(Len(vertices))
    /\ enableDeclarationDisorder = FALSE
    /\ syncFactories = <<>>
    /\ asyncFactories = <<>>
    /\ lastCall = <<>>
    /\ IdleV1
    /\ IdleStorage
    /\ IdleBuilder

NextV1Container ==
    \/ \E serviceName \in Keys : V1Container_get(serviceName)
    \/ \E serviceName \in Keys : V1Container_getAsync(serviceName)
    \/ \E p \in 1..Len(promises) : Fulfil(p)
    \/ \E p \in 1..Len(promises) : FulfilAll(p)
    \/ \E p \in 1..Len(promises) : RunThen(p)
    \/ \E p \in 1..Len(promises) : Follow(p)

SpecV1Container == InitV1Container /\ [][NextV1Container]_vars

\* newBuilder(options).fromFactory(...)....build()
InitBuilt ==
    /\ variant = "built"
    /\ EmptyHeap
    /\ enableDeclarationDisorder \in BOOLEAN
    /\ classes \in DeclaredClasses(enableDeclarationDisorder, MaxVertices)
    /\ instance = [n \in Keys |-> Undef]
    /\ isDestroyed = FALSE
    /\ pendingDelete = {}
    /\ ops = <<>>
    /\ vertices = <<>>
    /\ syncFactories = <<>>
    /\ asyncFactories = <<>>
    /\ lastCall = <<>>
    /\ IdleV1
    /\ IdleStorage

NextBuilt == \E name \in Keys : BuiltContainer_get(name)

SpecBuilt == InitBuilt /\ [][NextBuilt]_vars

\* new Singleton(factory) / new SingletonService({ factory }) /
\* createSingletonFactoryRegistry(map)
InitSlot ==
    /\ variant \in SlotClasses
    /\ heap = <<>> /\ connected = {} /\ calls = <<>>
    /\ promises = <<>> /\ gets = <<>>
    /\ slots = EmptySlot
    /\ IdleRegistration
    /\ IdleV1
    /\ IdleStorage
    /\ IdleBuilder

NextSlot ==
    \/ \E outcome \in FactoryOutcomes : Slot_instantiate(outcome)
    \/ \E p \in 1..Len(promises) : FactoryPromise_settle(p)
    \/ \E p \in 1..Len(promises) : SingletonService_settle(p)

SpecSlot == InitSlot /\ [][NextSlot]_vars

\* createContainerBuilder().addService(...)....build(), every service a
\* Singleton of a synchronous factory, with or without an invalidate predicate
InitDependents ==
    /\ variant = "dependents"
    /\ heap = <<>> /\ connected = {} /\ calls = <<>>
    /\ promises = <<>> /\ gets = <<>>
    /\ vertices \in {V \in BuiltGraphs(Cardinality(Keys)) : Len(V) >= 2}
    /\ slots \in [1..Len(vertices) ->
                    {[FreshService("Singleton", FALSE) EXCEPT !.invalidate = b] :
                        b \in BOOLEAN}]
    /\ enableDeclarationDisorder = FALSE
    /\ syncFactories = <<>>
    /\ asyncFactories = <<>>
    /\ lastCall = <<>>
    /\ IdleV1
    /\ IdleStorage
    /\ IdleBuilder

NextDependents ==
    \/ \E serviceName \in Keys : Dependents_get(serviceName)
    \/ \E i \in 1..Len(heap) : Disconnect(i)

SpecDependents == InitDependents /\ [][NextDependents]_vars

\* createContainerBuilder()....build() and createScopedContainerBuilder(parent)
InitScoped ==
    /\ variant = "scoped"
    /\ heap = <<>> /\ connected = {} /\ calls = <<>>
    /\ promises = <<>> /\ gets = <<>>
    /\ slots = [o \in Owners |-> [pt \in Partitions |-> [key \in ScopedKeys |-> <<>>]]]
    /\ \E choice \in [ScopedKeys -> ParentChoices] :
          /\ syncFactories = [o \in Owners |->
                 IF o = "parent" THEN ParentMaps(choice, "sync")
                 ELSE [lc \in LifeCycles |-> <<>>]]
          /\ asyncFactories = [o \in Owners |->
                 IF o = "parent" THEN ParentMaps(choice, "async")
                 ELSE [lc \in LifeCycles |-> <<>>]]
    /\ vertices = <<>>
    /\ enableDeclarationDisorder = FALSE
    /\ lastCall = <<>>
    /\ IdleV1
    /\ IdleStorage
    /\ IdleBuilder

NextScoped ==
    \/ \E key \in ScopedKeys, lc \in LifeCycles : ScopedContainerBuilder_addFactory(key, lc)
    \/ \E key \in ScopedKeys, lc \in LifeCycles : ScopedContainerBuilder_addConstructor(key, lc)
    \/ \E key \in ScopedKeys, lc \in LifeCycles : ScopedContainerBuilder_addAsyncFactory(key, lc)
    \/ \E key \in ScopedKeys, script \in Scripts : ParentContainer_get(key, script)
    \/ \E key \in ScopedKeys, script \in Scripts : ParentContainer_getAsync(key, script)
    \/ \E key \in ScopedKeys, script \in Scripts : ScopedContainer_get(key, script)
    \/ \E key \in ScopedKeys, script \in Scripts : ScopedContainer_getAsync(key, script)

SpecScoped == InitScoped /\ [][NextScoped]_vars

\* Any of the iterations
InitAny == InitV1 \/ InitStorage \/ InitBuilder

Next == NextV1 \/ NextStorage \/ NextBuilder

Spec == InitAny /\ [][Next]_vars

\* ------------------------------------------------ properties
\* The cache slot of the singleton under resolution.
Slot == IF variant = "v1" THEN instantiatedService ELSE singletonMap

\* Whether the slot's owner takes the registered invalidate predicate.
HasInvalidate == IF variant = "v1" THEN params.invalidate ELSE lifeCycle.invalidate

\* Which repair (refresh) callback the slot's owner has.
RepairOf == IF variant = "v1" THEN params.repair ELSE lifeCycle.refresh

SingletonSlot ==
    \/ variant = "v1" /\ params.type = "Singleton"
    \/ variant = "storage" /\ lifeCycle.type = "Singleton"

Done(k) == calls[k].stage = "done"

\* Resolution k left its result in the slot: the slot holds it (or the promise
\* of it) until the next resolution, which reads it.
StoredBy(k) ==
    IF k = Len(calls)
      THEN IF Slot.sync THEN Slot.val = calls[k].res ELSE Slot.call = k
      ELSE calls[k + 1].stage # "A" => calls[k + 1].pre = calls[k].res

\* The object v was made by a call of `by` ("factory" or "repair").
MadeBy(v, by) == Truthy(v) /\ heap[Id(v)].by = by

\* C1: a Singleton with no invalidate predicate (the default one) hands every
\* resolution the instance the first resolution returned, whatever the number
\* of resolutions and whether its factory is synchronous or not.
C1_SingletonIdentity ==
    (SingletonSlot /\ ~HasInvalidate) =>
        \A k \in 1..Len(calls) :
            Done(k) => /\ Truthy(calls[k].res)
                       /\ calls[k].res = calls[1].res

C1_Witness ==
    /\ variant = "v1"
    /\ params.type = "Singleton"
    /\ ~params.invalidate
    /\ params.asyncFactory
    /\ Len(calls) = MaxCalls
    /\ \A k \in 1..Len(calls) : Done(k) /\ calls[k].res = calls[1].res
    /\ \E i \in 1..Len(heap) : i \notin connected

\* C2: a Transient registration calls its factory at every resolution and
\* returns what that call made: no two resolutions return the same instance.
C2_TransientFresh ==
    /\ (variant = "v1" /\ params.type = "Transient") =>
          \A j, k \in 1..Len(transientCalls) :
              /\ MadeBy(transientCalls[k], "factory")
              /\ j # k => transientCalls[j] # transientCalls[k]
    /\ (variant = "storage" /\ lifeCycle.type = "Transient") =>
          \A j, k \in 1..Len(storageOps) :
              /\ MadeBy(storageOps[k].value, "factory")
              /\ storageOps[k].nFactory = 1
              /\ j # k => storageOps[j].value # storageOps[k].value
    /\ variant = "builder" =>
          \A j, k \in 1..Len(ops) :
              (/\ ops[k].op = "get"
               /\ ops[k].outcome = "returned"
               /\ \E r \in 1..Len(ops[k].classes) :
                     /\ ops[k].classes[r].name = ops[k].name
                     /\ ops[k].classes[r].lifeCycle = "Transient") =>
                 /\ MadeBy(ops[k].value, "factory")
                 /\ \E e \in 1..Len(ops[k].events) :
                       ops[k].events[e] = <<"factory", ops[k].name, ops[k].value>>
                 /\ (j # k /\ ops[j].op = "get" /\ ops[j].outcome = "returned") =>
                       ops[j].value # ops[k].value

C2_Witness ==
    /\ variant = "v1"
    /\ params.type = "Transient"
    /\ Len(transientCalls) = MaxCalls
    /\ transientCalls[1] # transientCalls[2]
    /\ transientCalls[2] # transientCalls[MaxCalls]

\* The semi-transient cache entry resolution k left behind.
EntryAfter(k) ==
    IF k = Len(storageOps) THEN semiTransientMap[1] ELSE storageOps[k + 1].cached[1]

\* C3: with a window of W seconds and an entry (re)created at t0, a
\* semi-transient resolution at t returns the cached instance and keeps the
\* entry when t < t0 + W, and makes a new instance, (re)created at t, when
\* t >= t0 + W.
C3_SemiTransientWindow ==
    (variant = "storage" /\ lifeCycle.type = "SemiTransient") =>
        \A k \in 1..Len(storageOps) :
            LET o == storageOps[k]
                W == lifeCycle.timeBetweenRefresh * MsPerSecond
            IN /\ o.cached = <<>> =>
                    EntryAfter(k) = [lastRefreshTime |-> o.now, value |-> o.value]
               /\ (o.cached # <<>> /\ o.now < o.cached[1].lastRefreshTime + W) =>
                    /\ o.value = o.cached[1].value
                    /\ o.nFactory = 0
                    /\ EntryAfter(k) = o.cached[1]
               /\ (o.cached # <<>> /\ o.now >= o.cached[1].lastRefreshTime + W) =>
                    /\ o.value # o.cached[1].value
                    /\ o.nFactory = 1
                    /\ MadeBy(o.value, "factory")
                    /\ EntryAfter(k) = [lastRefreshTime |-> o.now, value |-> o.value]

\* t0 < t1 < t0 + W <= t2, bang on the window's end
C3_Witness ==
    /\ variant = "storage"
    /\ lifeCycle.type = "SemiTransient"
    /\ lifeCycle.timeBetweenRefresh = 1
    /\ Len(storageOps) = 3
    /\ storageOps[1].now < storageOps[2].now
    /\ storageOps[2].now < storageOps[1].now + MsPerSecond
    /\ storageOps[3].now = storageOps[1].now + MsPerSecond
    /\ storageOps[1].value = storageOps[2].value
    /\ storageOps[1].value # storageOps[3].value

\* ---- resolutions of the builder's container
FactoryEvents(o, n) ==
    {e \in 1..Len(o.events) : o.events[e][1] = "factory" /\ o.events[e][2] = n}

RepairEvents(o, n) ==
    {e \in 1..Len(o.events) : o.events[e][1] = "repair" /\ o.events[e][2] = n}

\* The registration of n in the container that ran operation o.
RegOf(o, n) == o.classes[CHOOSE r \in 1..Len(o.classes) : o.classes[r].name = n]

\* The names a successful get resolves: the one asked for and its dependencies.
Resolves(o) ==
    IF o.op = "get" /\ o.outcome = "returned"
      THEN {o.name} \cup {RegOf(o, o.name).dependencies[d] :
                            d \in 1..Len(RegOf(o, o.name).dependencies)}
      ELSE {}

\* Resolutions by the builder's container of a singleton n whose slot was
\* empty (populated = FALSE) or held an instance (populated = TRUE).
SingletonResolutions(populated) ==
    IF variant # "builder" THEN {}
    ELSE {<<k, n>> \in (1..Len(ops)) \X Names :
            /\ n \in Resolves(ops[k])
            /\ RegOf(ops[k], n).lifeCycle = "Singleton"
            /\ Truthy(ops[k].pre[n]) = populated}

Returned(o, n) == n = o.name => o.value = o.post[n]

\* The first resolution of a v1 or ServiceStorage singleton calls the factory
\* once, keeps what it made and returns it untouched.
FirstResolutionPlain ==
    SingletonSlot =>
        \A k \in 1..Len(calls) :
            (Done(k) /\ ~Truthy(calls[k].pre)) =>
                /\ calls[k].nFactory = 1
                /\ calls[k].nRepair = 0
                /\ calls[k].nInvalidate = 0
                /\ MadeBy(calls[k].res, "factory")
                /\ StoredBy(k)

\* C4 as stated: on the first resolution of an empty Singleton the factory is
\* called exactly once, its result is stored and returned as is, and neither
\* invalidate nor repair is applied to the fresh value.
C4_AsStated ==
    /\ FirstResolutionPlain
    /\ \A r \in SingletonResolutions(FALSE) :
          LET o == ops[r[1]]
              n == r[2]
          IN /\ Cardinality(FactoryEvents(o, n)) = 1
             /\ RepairEvents(o, n) = {}
             /\ \A e \in FactoryEvents(o, n) : o.post[n] = o.events[e][3]
             /\ Returned(o, n)

\* C4 amended: on the first resolution of an empty Singleton the factory is
\* called exactly once and no invalidate predicate is applied; v1 and
\* ServiceStorage store and return the fresh value as is, while the builder's
\* Singleton passes the fresh value once through a registered repair callback
\* and stores and returns what repair returned.
C4_FirstResolution ==
    /\ FirstResolutionPlain
    /\ \A r \in SingletonResolutions(FALSE) :
          LET o == ops[r[1]]
              n == r[2]
          IN /\ Cardinality(FactoryEvents(o, n)) = 1
             /\ Returned(o, n)
             /\ IF RegOf(o, n).repair = "none"
                  THEN /\ RepairEvents(o, n) = {}
                       /\ \A e \in FactoryEvents(o, n) : o.post[n] = o.events[e][3]
                  ELSE /\ Cardinality(RepairEvents(o, n)) = 1
                       /\ \A e \in RepairEvents(o, n) : o.post[n] = o.events[e][3]
                       /\ \A e \in FactoryEvents(o, n) :
                             (RegOf(o, n).repair = "inplace") = (o.post[n] = o.events[e][3])
                       /\ RegOf(o, n).repair = "fresh" => MadeBy(o.post[n], "repair")

C4_Witness ==
    /\ variant = "builder"
    /\ \E k \in 1..Len(ops) :
          /\ <<k, "repo">> \in SingletonResolutions(FALSE)
          /\ <<k, "db">> \in SingletonResolutions(FALSE)
          /\ RegOf(ops[k], "repo").repair = "fresh"
          /\ RegOf(ops[k], "db").repair = "none"
          /\ MadeBy(ops[k].value, "repair")
          /\ MadeBy(ops[k].post["db"], "factory")

\* A valid cached instance of a v1 or ServiceStorage singleton is returned as
\* it is, with no call of the factory or of repair.
ValidResolutionPlain ==
    SingletonSlot =>
        \A k \in 1..Len(calls) :
            (Done(k) /\ Truthy(calls[k].pre) /\ ~calls[k].isInvalid) =>
                /\ calls[k].res = calls[k].pre
                /\ calls[k].nFactory = 0
                /\ calls[k].nRepair = 0
                /\ StoredBy(k)

\* C5 as stated: a Singleton whose slot holds v, with invalidate(v) false,
\* returns v, keeps v in the slot and calls neither the factory nor repair.
C5_AsStated ==
    /\ ValidResolutionPlain
    /\ \A r \in SingletonResolutions(TRUE) :
          LET o == ops[r[1]]
              n == r[2]
          IN /\ FactoryEvents(o, n) = {}
             /\ RepairEvents(o, n) = {}
             /\ o.post[n] = o.pre[n]
             /\ Returned(o, n)

\* C5 amended: a Singleton whose slot holds v never calls the factory while v
\* is valid; v1 and ServiceStorage (invalidate(v) false) return v and keep it
\* without calling repair, and so does the builder's Singleton when no repair
\* callback is registered; with one registered, the builder's Singleton, which
\* has no invalidate predicate, calls repair(v) once at every resolution and
\* stores and returns its result.
C5_ValidResolution ==
    /\ ValidResolutionPlain
    /\ \A r \in SingletonResolutions(TRUE) :
          LET o == ops[r[1]]
              n == r[2]
          IN /\ FactoryEvents(o, n) = {}
             /\ Returned(o, n)
             /\ IF RegOf(o, n).repair = "none"
                  THEN RepairEvents(o, n) = {} /\ o.post[n] = o.pre[n]
                  ELSE /\ Cardinality(RepairEvents(o, n)) = 1
                       /\ \A e \in RepairEvents(o, n) : o.post[n] = o.events[e][3]
                       /\ (RegOf(o, n).repair = "inplace") = (o.post[n] = o.pre[n])
                       /\ RegOf(o, n).repair = "fresh" => MadeBy(o.post[n], "repair")

C5_Witness ==
    /\ variant = "builder"
    /\ \E j, k \in 1..Len(ops) :
          /\ <<j, "db">> \in SingletonResolutions(TRUE)
          /\ RegOf(ops[j], "db").repair = "none"
          /\ ops[j].name = "db"
          /\ ops[j].value = ops[j].pre["db"]
          /\ <<k, "repo">> \in SingletonResolutions(TRUE)
          /\ RegOf(ops[k], "repo").repair = "fresh"
          /\ ops[k].name = "repo"
          /\ ops[k].value # ops[k].pre["repo"]

\* C6: a Singleton whose slot holds v, with invalidate(v) true and a repair
\* callback, calls repair(v) once and not the factory, returns and stores
\* what repair returned, and the next resolution that finds it valid returns
\* that same instance.
C6_Repair ==
    SingletonSlot =>
        \A k \in 1..Len(calls) :
            (Done(k) /\ Truthy(calls[k].pre) /\ calls[k].isInvalid /\ RepairOf # "none") =>
                /\ calls[k].nFactory = 0
                /\ calls[k].nRepair = 1
                /\ RepairOf = "inplace" => calls[k].res = calls[k].pre
                /\ RepairOf = "fresh" =>
                      MadeBy(calls[k].res, "repair") /\ calls[k].res # calls[k].pre
                /\ StoredBy(k)
                /\ (k < Len(calls) /\ Done(k + 1) /\ ~calls[k + 1].isInvalid) =>
                      calls[k + 1].res = calls[k].res

C6_Witness ==
    /\ variant = "v1"
    /\ params.repair = "fresh"
    /\ params.asyncRepair
    /\ Len(calls) = 3
    /\ \A k \in 1..3 : Done(k)
    /\ calls[2].isInvalid
    /\ ~calls[3].isInvalid
    /\ calls[2].res # calls[1].res
    /\ calls[3].res = calls[2].res

\* C7: a Singleton whose slot holds v, with invalidate(v) true and no repair
\* callback, calls the factory again, stores the new instance in place of v
\* and returns it.
C7_ReInstantiate ==
    SingletonSlot =>
        \A k \in 1..Len(calls) :
            (Done(k) /\ Truthy(calls[k].pre) /\ calls[k].isInvalid /\ RepairOf = "none") =>
                /\ calls[k].nFactory = 1
                /\ calls[k].nRepair = 0
                /\ MadeBy(calls[k].res, "factory")
                /\ calls[k].res # calls[k].pre
                /\ StoredBy(k)

C7_Witness ==
    /\ variant = "v1"
    /\ params.repair = "none"
    /\ Len(calls) >= 2
    /\ Done(1) /\ Done(2)
    /\ calls[2].isInvalid
    /\ calls[2].res # calls[1].res
    /\ instantiatedService.sync
    /\ Len(calls) = 2 => instantiatedService.val = calls[2].res

\* ---- teardown of the builder's container
DestroyEvents(o) == {e \in 1..Len(o.events) : o.events[e][1] = "destroy"}

\* The singletons with a destroy callback whose slot held an instance when
\* operation o began.
PopulatedDestroyables(o) ==
    {n \in Names : \E r \in 1..Len(o.classes) :
        /\ o.classes[r].name = n
        /\ o.classes[r].lifeCycle = "Singleton"
        /\ o.classes[r].destroy # "none"
        /\ Truthy(o.pre[n])}

\* C8 as stated: a teardown calls the destroy callback of every populated
\* Singleton slot exactly once, with the cached instance, and no instance is
\* ever handed to its destroy callback a second time.
C8_AsStated ==
    variant = "builder" =>
        \A k \in 1..Len(ops) :
            ops[k].op = "destroy" =>
                /\ \A n \in PopulatedDestroyables(ops[k]) :
                      Cardinality({e \in DestroyEvents(ops[k]) :
                          ops[k].events[e] = <<"destroy", n, ops[k].pre[n]>>}) = 1
                /\ \A j \in 1..(k - 1) :
                      \A e \in DestroyEvents(ops[k]), f \in DestroyEvents(ops[j]) :
                          ops[k].events[e] # ops[j].events[f]

\* C9: a destroy callback is only ever called with an instance that a
\* resolution put in the slot before; a Singleton that was never resolved
\* never has its destroy callback called, be the factory or the callback
\* synchronous or not.
C9_NeverPopulated ==
    /\ variant = "v1" =>
          \A d \in 1..Len(destroys) :
              destroys[d].called =>
                  /\ Truthy(destroys[d].arg)
                  /\ \E k \in 1..Len(calls) : Done(k) /\ calls[k].res = destroys[d].arg
    /\ variant = "builder" =>
          \A k \in 1..Len(ops) :
              \A e \in DestroyEvents(ops[k]) :
                  LET n == ops[k].events[e][2]
                      v == ops[k].events[e][3]
                  IN /\ Truthy(v)
                     /\ v = ops[k].pre[n]
                     /\ \E j \in 1..(k - 1) :
                           /\ ops[j].op = "get"
                           /\ n \in Resolves(ops[j])
                           /\ ops[j].post[n] = v

\* db resolved, repo never: the teardown calls db's callback only.
C9_Witness ==
    /\ variant = "builder"
    /\ \E k \in 1..Len(ops) :
          /\ ops[k].op = "destroy"
          /\ Len(ops[k].classes) = 2
          /\ ops[k].classes[1].destroy = "sync"
          /\ ops[k].classes[2].destroy = "async"
          /\ Truthy(ops[k].pre["db"])
          /\ ~Truthy(ops[k].pre["repo"])
          /\ ops[k].events = << <<"destroy", "db", ops[k].pre["db"]>> >>
          /\ ops[k].outcome = "resolved"

\* C10 as stated: once destroy() has been called, every get, of whatever
\* name, fails with the destroyed-container error.
C10_AsStated ==
    variant = "builder" =>
        \A j, k \in 1..Len(ops) :
            (j < k /\ ops[j].op = "destroy" /\ ops[k].op = "get") =>
                ops[k].outcome = "CannotRetrieveDestroyedServiceError"

\* C11 as stated: once the destroy callback of a Singleton has been called
\* with the cached instance, the slot no longer holds that instance and no
\* later resolution returns it.
C11_AsStated ==
    /\ variant = "v1" =>
          \A d \in 1..Len(destroys) :
              destroys[d].called =>
                  ~(instantiatedService.sync /\ instantiatedService.val = destroys[d].arg)
    /\ variant = "builder" =>
          \A k \in 1..Len(ops) :
              \A e \in DestroyEvents(ops[k]) :
                  LET n == ops[k].events[e][2]
                      v == ops[k].events[e][3]
                  IN /\ n \notin pendingDelete => (classes = <<>> \/ instance[n] # v)
                     /\ \A j \in (k + 1)..Len(ops) :
                           \A m \in Resolves(ops[j]) : ops[j].post[m] # v

\* The populated singletons whose destroy callback fails.
FailingDestroyables(o) ==
    {n \in PopulatedDestroyables(o) : RegOf(o, n).destroy \in {"throws", "rejects"}}

\* C12 as stated: a teardown calls the destroy callback of every populated
\* slot even when one of the callbacks fails, and when one fails destroy()
\* returns a rejected promise.
C12_AsStated ==
    variant = "builder" =>
        \A k \in 1..Len(ops) :
            ops[k].op = "destroy" =>
                /\ \A n \in PopulatedDestroyables(ops[k]) :
                      \E e \in DestroyEvents(ops[k]) : ops[k].events[e][2] = n
                /\ FailingDestroyables(ops[k]) # {} => ops[k].outcome = "rejected"

Called(op) == IF lastCall = <<>> THEN FALSE ELSE lastCall[1].op = op

\* Whether the vertices V hold key n.
HasKey(V, n) == \E i \in 1..Len(V) : V[i].key = n

\* C14: in the insertion-order graph, addVertex with a neighbour that is not
\* in the graph throws NoNeighbourError naming the key and the first missing
\* neighbour, and adds no vertex; ContainerBuilder.addService of a name not
\* yet registered with a dependency that is not registered throws
\* DependencyNotFoundError naming the service and the first missing
\* dependency, and registers nothing.
C14_UnknownDependency ==
    (Called("addVertex") \/ Called("addService")) =>
        LET c == lastCall[1]
            known(n) == HasKey(c.before, n)
            missing == {i \in 1..Len(c.dependencies) : ~known(c.dependencies[i])}
        IN (missing # {} /\ (c.op = "addService" => ~known(c.key))) =>
              /\ Len(c.error) = 3
              /\ c.error[1] = IF c.op = "addVertex" THEN "NoNeighbourError"
                                                     ELSE "DependencyNotFoundError"
              /\ c.error[2] = c.key
              /\ \E i \in missing : /\ c.error[3] = c.dependencies[i]
                                    /\ \A j \in missing : i <= j
              /\ vertices = c.before

\* the first dependency is in the graph, the second is not
C14_Witness ==
    /\ variant = "graph"
    /\ Called("addVertex")
    /\ LET c == lastCall[1]
       IN /\ Len(c.before) = 2
          /\ Len(c.dependencies) = 2
          /\ HasKey(c.before, c.dependencies[1])
          /\ ~HasKey(c.before, c.dependencies[2])
          /\ c.error = <<"NoNeighbourError", c.key, c.dependencies[2]>>
          /\ vertices = c.before

RECURSIVE TransitiveClosure(_)

TransitiveClosure(E) ==
    LET S == E \cup {<<pq[1][1], pq[2][2]>> : pq \in {x \in E \X E : x[1][2] = x[2][1]}}
    IN IF S = E THEN E ELSE TransitiveClosure(S)

HasCycle(E) == \E e \in TransitiveClosure(E) : e[1] = e[2]

\* The edges of the v1 graph, between positions of V: a vertex points to the
\* vertex getVertex finds for each of its neighbours.
VertexEdges(V) ==
    {e \in (1..Len(V)) \X (1..Len(V)) :
        /\ \E n \in 1..Len(V[e[1]].neighbours) : V[e[1]].neighbours[n] = V[e[2]].key
        /\ getVertex(V, V[e[2]].key) = <<V[e[2]]>>
        /\ \A h \in 1..(e[2] - 1) : V[h].key # V[e[2]].key}

\* The edges between the services declared in C (names are unique there).
ClassEdges(C) ==
    {e \in (1..Len(C)) \X (1..Len(C)) :
        \E n \in 1..Len(C[e[1]].dependencies) : C[e[1]].dependencies[n] = C[e[2]].name}

\* C15: in insertion-order mode (the v1 graph, the v1 ContainerBuilder, and
\* the ContainerBuilder without declaration disorder) the dependency graph is
\* acyclic after any sequence of registrations.
C15_Acyclic ==
    /\ variant \in {"graph", "v1builder"} => ~HasCycle(VertexEdges(vertices))
    /\ (variant = "declare" /\ ~enableDeclarationDisorder) => ~HasCycle(ClassEdges(classes))

\* the third vertex depends on the second, which depends on the first, and
\* the third has the key of the first
C15_Witness ==
    /\ variant = "graph"
    /\ Len(vertices) = 3
    /\ vertices[3].key = vertices[1].key
    /\ vertices[2].key # vertices[1].key
    /\ vertices[3].neighbours = <<vertices[2].key>>
    /\ vertices[2].neighbours = <<vertices[1].key>>
    /\ <<3, 1>> \in TransitiveClosure(VertexEdges(vertices))

\* C16 as stated: every identifier a registration depends on is registered,
\* in the insertion-order modes after any registrations and in
\* declaration-disorder mode once checkDependenciesValidity has succeeded.
C16_AsStated ==
    /\ variant \in {"graph", "v1builder"} =>
          \A i \in 1..Len(vertices) : \A n \in 1..Len(vertices[i].neighbours) :
              HasKey(vertices, vertices[i].neighbours[n])
    /\ (variant = "declare" /\ (enableDeclarationDisorder =>
                                   /\ Called("checkDependenciesValidity")
                                   /\ lastCall[1].error = <<>>)) =>
          \A i \in 1..Len(classes) : \A n \in 1..Len(classes[i].dependencies) :
              Declared(classes, classes[i].dependencies[n])

\* C18: fromFactory with the Transient life cycle and a repair or a destroy
\* callback throws (CannotRepairTransientError, or CannotDestroyTransientError
\* when there is no repair callback, for a name not yet declared) and declares
\* nothing: no declared service is a Transient with a callback.
C18_TransientCallbacks ==
    /\ variant = "declare" =>
          \A i \in 1..Len(classes) :
              classes[i].lifeCycle = "Transient" =>
                  classes[i].repair = "none" /\ classes[i].destroy = "none"
    /\ Called("fromFactory") =>
          LET c == lastCall[1]
          IN (/\ c.reg.lifeCycle = "Transient"
              /\ c.reg.repair # "none" \/ c.reg.destroy # "none") =>
                /\ c.error # <<>>
                /\ classes = c.before
                /\ ~Declared(c.before, c.reg.name) =>
                      c.error = <<IF c.reg.repair # "none"
                                    THEN "CannotRepairTransientError"
                                    ELSE "CannotDestroyTransientError", c.reg.name>>

C18_Witness ==
    /\ Called("fromFactory")
    /\ lastCall[1].reg.lifeCycle = "Transient"
    /\ lastCall[1].reg.repair = "none"
    /\ lastCall[1].reg.destroy = "sync"
    /\ lastCall[1].before # <<>>
    /\ lastCall[1].error = <<"CannotDestroyTransientError", lastCall[1].reg.name>>
    /\ classes = lastCall[1].before

\* C19: with declaration disorder, checkDependenciesValidity throws
\* CircularDependencyError whenever the declared services depend on one
\* another in a cycle, whatever the order of the declarations.
C19_CycleFound ==
    (Called("checkDependenciesValidity") /\ enableDeclarationDisorder) =>
        (HasCycle(ClassEdges(lastCall[1].before)) =>
            /\ lastCall[1].error # <<>>
            /\ lastCall[1].error[1] = "CircularDependencyError")

\* the cycle is between the second and the third declared service, and the
\* first, which only leads to it, is the one reported
C19_Witness ==
    /\ Called("checkDependenciesValidity")
    /\ enableDeclarationDisorder
    /\ Len(classes) = 3
    /\ <<1, 1>> \notin TransitiveClosure(ClassEdges(classes))
    /\ <<2, 3>> \in ClassEdges(classes)
    /\ <<3, 2>> \in ClassEdges(classes)
    /\ lastCall[1].error # <<>>
    /\ lastCall[1].error[2] = classes[1].name

\* C20 as stated: with declaration disorder, checkDependenciesValidity
\* succeeds whenever the declared services do not depend on one another in a
\* cycle, also when a service is reachable through two different paths.
C20_AsStated ==
    (Called("checkDependenciesValidity") /\ enableDeclarationDisorder) =>
        (~HasCycle(ClassEdges(lastCall[1].before)) => lastCall[1].error = <<>>)

\* C17 as stated: registering an identifier that is already registered
\* throws ServiceAlreadyRegisteredError and leaves the registrations as they
\* were, for v1 addService, for fromFactory and for addFactory,
\* addConstructor and addAsyncFactory of the partitioned ContainerBuilder.
C17_AsStated ==
    /\ Called("addService") =>
          (HasKey(lastCall[1].before, lastCall[1].key) =>
              /\ lastCall[1].error = <<"ServiceAlreadyRegisteredError", lastCall[1].key>>
              /\ vertices = lastCall[1].before)
    /\ Called("fromFactory") =>
          (Declared(lastCall[1].before, lastCall[1].reg.name) =>
              /\ lastCall[1].error = <<"ServiceAlreadyRegisteredError", lastCall[1].reg.name>>
              /\ classes = lastCall[1].before)
    /\ (Called("addFactory") \/ Called("addConstructor") \/ Called("addAsyncFactory")) =>
          (isAlreadyRegistered(lastCall[1].before.sync, lastCall[1].before.async,
                               lastCall[1].key) =>
              /\ lastCall[1].error = <<"ServiceAlreadyRegisteredError", lastCall[1].key>>
              /\ syncFactories = lastCall[1].before.sync
              /\ asyncFactories = lastCall[1].before.async)

\* C24: combining wrappers (SyncPromise.all, SyncPromise.allWithoutTypeChecking)
\* answers with an immediate list exactly when no input is a pending Promise,
\* with a Promise otherwise; the immediate list, and the list the Promise
\* fulfils with once every input Promise has fulfilled, hold the unwrapped
\* values in the order of the inputs.
C24_Combine ==
    (Called("all") \/ Called("allWithoutTypeChecking")) =>
        LET c == lastCall[1]
            n == Len(c.inputs)
        IN /\ c.sync <=> (\A i \in 1..n : ~isPromise(c.inputs[i]))
           /\ c.sync => /\ Len(c.list) = n
                        /\ \A i \in 1..n : c.list[i] = c.inputs[i].val
           /\ ~c.sync =>
                /\ c.p \in 1..Len(promises)
                /\ promises[c.p].state = "fulfilled" =>
                     /\ Len(promises[c.p].list) = n
                     /\ \A i \in 1..n :
                          IF isPromise(c.inputs[i])
                            THEN /\ promises[c.inputs[i].p].state = "fulfilled"
                                 /\ promises[c.p].list[i] = promises[c.inputs[i].p].val
                            ELSE promises[c.p].list[i] = c.inputs[i].val

\* A SyncPromise and a Promise of different values were combined, Promise
\* first, and the combination has fulfilled.
C24_Witness ==
    /\ Called("allWithoutTypeChecking")
    /\ Len(lastCall[1].inputs) = 2
    /\ isPromise(lastCall[1].inputs[1])
    /\ isSyncPromise(lastCall[1].inputs[2])
    /\ ~lastCall[1].sync
    /\ promises[lastCall[1].p].state = "fulfilled"
    /\ promises[lastCall[1].p].list = <<Obj(2), Obj(1)>>

\* C25: then on a SyncPromise runs the continuation at once and never throws
\* of its own; it answers with a Promise exactly when the continuation
\* returned one, and otherwise with a SyncPromise of what the continuation
\* returned.
C25_AsStated ==
    Called("then") =>
        LET c == lastCall[1]
        IN /\ c.threw = ""
           /\ isPromise(c.value) <=> isPromise(c.result)
           /\ ~isPromise(c.result) => /\ isSyncPromise(c.value)
                                      /\ c.value.val = c.result.val

\* ---- resolutions of the v1 container
\* The services get resolves for a service: itself and, transitively, its
\* dependencies.
RECURSIVE SubtreeOf(_, _)
SubtreeOf(V, name) ==
    {name} \cup UNION {SubtreeOf(V, getNeighbours(V, name)[j]) :
                          j \in 1..Len(getNeighbours(V, name))}

\* Whether no factory under a service is asynchronous.
AllSync(V, L, name) == \A n \in SubtreeOf(V, name) : ~L[IndexOf(V, n)].asyncFactory

\* Whether an argument is the object a factory of the named service made from
\* well-built arguments, one per dependency and in the order of dependsOn:
\* the result the synchronous computation gives.
RECURSIVE WellBuilt(_, _, _, _)
WellBuilt(H, x, V, name) ==
    IF x.kind # "object" THEN FALSE
    ELSE LET h == H[Id(x.val)]
             dependsOn == getNeighbours(V, name)
         IN /\ h.of = name
            /\ Len(h.args) = Len(dependsOn)
            /\ \A j \in 1..Len(dependsOn) : WellBuilt(H, h.args[j], V, dependsOn[j])

\* The calls of get / getAsync that found their service.
Found(entry) ==
    {k \in 1..Len(gets) : gets[k].entry = entry /\ gets[k].threw = ""}

\* C21: when every factory under a service is synchronous, get answers in the
\* call itself with the bare object, built as the dependencies say, and makes
\* no Promise on the way.
C21_SyncGet ==
    variant = "v1container" =>
        \A k \in Found("get") :
            AllSync(vertices, slots, gets[k].name) =>
                /\ gets[k].ret.kind = "object"
                /\ gets[k].scheduled = 0
                /\ WellBuilt(heap, gets[k].ret, vertices, gets[k].name)

\* get("c") answered an object for the synchronous chain c -> b -> a.
C21_Witness ==
    /\ variant = "v1container"
    /\ Len(vertices) = 3
    /\ getNeighbours(vertices, "c") = <<"b">>
    /\ getNeighbours(vertices, "b") = <<"a">>
    /\ \E k \in Found("get") :
          /\ gets[k].name = "c"
          /\ AllSync(vertices, slots, "c")
          /\ gets[k].ret.kind = "object"
          /\ Len(heap) = 3

\* C22: when some factory under a service is asynchronous, get and getAsync
\* answer a Promise; once it has fulfilled its value is the object the
\* synchronous computation builds, and no factory was ever called with a
\* Promise among its arguments.
C22_AsyncGet ==
    variant = "v1container" =>
        /\ \A k \in Found("get") \cup Found("getAsync") :
              ~AllSync(vertices, slots, gets[k].name) =>
                  /\ isPromise(gets[k].ret)
                  /\ promises[gets[k].ret.p].state = "fulfilled" =>
                        WellBuilt(heap, Bare("object", promises[gets[k].ret.p].val),
                                  vertices, gets[k].name)
        /\ \A i \in 1..Len(heap) : \A j \in 1..Len(heap[i].args) :
              heap[i].args[j].kind = "object"

\* The Promise of get("c") has fulfilled for the chain c -> b -> a with an
\* asynchronous factory for a and synchronous ones above it.
C22_Witness ==
    /\ variant = "v1container"
    /\ Len(vertices) = 3
    /\ getNeighbours(vertices, "c") = <<"b">>
    /\ getNeighbours(vertices, "b") = <<"a">>
    /\ slots[1].asyncFactory /\ ~slots[2].asyncFactory /\ ~slots[3].asyncFactory
    /\ \E k \in Found("get") :
          /\ gets[k].name = "c"
          /\ isPromise(gets[k].ret)
          /\ promises[gets[k].ret.p].state = "fulfilled"
          /\ heap[Id(promises[gets[k].ret.p].val)].of = "c"

\* C23: getAsync always answers a Promise, also when every factory under the
\* service is synchronous.
C23_AsStated ==
    variant = "v1container" =>
        \A k \in Found("getAsync") : isPromise(gets[k].ret)

C28_AsStated ==
    variant = "v1container" =>
        \A k \in 1..Len(gets) : gets[k].entry = "getAsync" => gets[k].threw = ""

\* ---- teardown of the storage
\* C27: the destroy callbacks of a storage are called with instances, never
\* with the Promise an asynchronous factory answered.
C27_AsStated ==
    Called("destroyAll") =>
        \A j \in 1..Len(lastCall[1].destroyed) : ~isPromise(lastCall[1].destroyed[j])

\* ---- resolutions of a container built from declarations
\* C29: a get on a built container never recurses without end, and no
\* container whose declared dependencies hold a cycle is ever resolved from.
C29_AsStated ==
    variant = "built" =>
        /\ \A k \in 1..Len(gets) : gets[k].threw # "RangeError"
        /\ gets # <<>> => ~HasCycle(ClassEdges(classes))

\* C30: on a container built from registrations that all succeeded, get of a
\* registered name never fails for a service that is not registered.
C30_AsStated ==
    variant = "built" =>
        \A k \in 1..Len(gets) :
            Registered(gets[k].name) => gets[k].threw # "NoServiceFoundError"

\* ---- keys of the graph
\* C40: after any sequence of addVertex calls no two vertices of the graph
\* have the same key.
C40_AsStated ==
    variant = "graph" =>
        \A i, j \in 1..Len(vertices) : i # j => vertices[i].key # vertices[j].key

\* ---- traversal of the graph
\* The keys a depth-first pre-order walk from key meets: the key, then the
\* walk of each neighbour of its vertex in the order of the neighbours.
RECURSIVE PreOrder(_, _), PreOrderOfEach(_, _)
PreOrder(V, key) == <<key>> \o PreOrderOfEach(V, getVertex(V, key)[1].neighbours)

PreOrderOfEach(V, keys) ==
    IF keys = <<>> THEN <<>>
    ELSE PreOrder(V, Head(keys)) \o PreOrderOfEach(V, Tail(keys))

\* C33: traverse(key, visit) throws NoVertexError, visiting nothing, when the
\* graph has no vertex for key; otherwise it visits key first and then, for
\* each neighbour in the order given to addVertex, all that a traverse from
\* that neighbour visits.
C33_Traverse ==
    Called("traverse") =>
        LET c == lastCall[1]
        IN IF isVertexExisting(vertices, c.key)
             THEN /\ c.error = <<>>
                  /\ c.visited = PreOrder(vertices, c.key)
             ELSE /\ c.error = <<"NoVertexError", c.key>>
                  /\ c.visited = <<>>

\* traverse("c") on a, b -> [a], c -> [b, a] visited c, b, a, a.
C33_Witness ==
    /\ Called("traverse")
    /\ lastCall[1].key = "c"
    /\ lastCall[1].visited = <<"c", "b", "a", "a">>


\* C39 as stated: teardown is idempotent. A second destroy() calls no destroy
\* callback again: over the life of a service, no cached instance is handed to
\* the destroy callback by two different destroy() calls.
C39_AsStated ==
    variant = "v1" =>
        \A d, e \in 1..Len(destroys) :
            (d # e /\ destroys[d].called /\ destroys[e].called) =>
                destroys[d].arg # destroys[e].arg


\* C37 as stated: the first resolution of a Semi-Transient registration, the
\* one that finds no cached entry, invokes the factory exactly once, whatever
\* the window length, 0 included.
C37_AsStated ==
    (variant = "storage" /\ lifeCycle.type = "SemiTransient") =>
        \A k \in 1..Len(storageOps) :
            storageOps[k].cached = <<>> => storageOps[k].nFactory = 1


\* ---- one Singleton with any factory
\* The resolutions that called the factory and got a value back from it.
Constructions ==
    {k \in 1..Len(ops) : ops[k].nFactory = 1 /\ ops[k].threw = ""
                            /\ ops[k].outcome \notin {"fulfils", "rejects"}}

\* C36 as stated: a Singleton is constructed once whatever its factory
\* returns.  Once a resolution has called the factory and the factory has
\* returned a value, be it 0, false, '', null or undefined, no later
\* resolution calls the factory and every later resolution returns that value.
C36_AsStated ==
    variant \in SlotClasses =>
        \A k \in Constructions :
            \A j \in (k + 1)..Len(ops) :
                /\ ops[j].nFactory = 0
                /\ ops[j].value = ops[k].value

\* C38 as stated: a failure is not cached.  When the factory throws, the slot
\* is left as the resolution found it and the next resolution calls the
\* factory again; and a resolution that finds in the slot a pending value that
\* has rejected calls the factory again.
C38_AsStated ==
    variant \in SlotClasses =>
        \A k \in 1..Len(ops) :
            /\ ops[k].outcome = "throws" =>
                  /\ ops[k].after = ops[k].before
                  /\ k < Len(ops) => ops[k + 1].nFactory = 1
            /\ ops[k].failed => ops[k].nFactory = 1


\* ---- a cached Singleton and its dependencies
\* The successful resolutions by the builder's container of a Singleton whose
\* slot held an instance.
CachedResolutions ==
    {k \in 1..Len(ops) :
        /\ ops[k].op = "get"
        /\ ops[k].outcome = "returned"
        /\ RegOf(ops[k], ops[k].name).lifeCycle = "Singleton"
        /\ Truthy(ops[k].pre[ops[k].name])}

C34_AsStated ==
    variant = "dependents" =>
        \A k \in 1..Len(gets) :
            gets[k].threw = "" =>
                LET made == heap[Id(gets[k].ret.val)].args
                    deps == getNeighbours(vertices, gets[k].name)
                IN \A d \in 1..Len(deps) :
                      made[d].val = gets[k].slots[IndexOf(vertices, deps[d])].val


\* ---- the partitions and the scopes of the partitioned container
\* C31: a factory registered as synchronous receives a provider that has only
\* get and has, so a synchronous resolution never reaches an asynchronous
\* registration: the application's get calls no factory of the async
\* partition, and wherever a factory of the async partition is called, it is
\* called by the application's getAsync or by another async factory, never
\* from within a sync factory.
C31_SyncNeverReachesAsync ==
    variant = "scoped" =>
        \A k \in 1..Len(gets) :
            LET ev == gets[k].events
            IN \A e \in 1..Len(ev) :
                  /\ gets[k].entry = "get" => ev[e].partition = "sync"
                  /\ ev[e].partition = "async" =>
                        IF ev[e].by = 0 THEN gets[k].entry = "getAsync"
                        ELSE ev[ev[e].by].partition = "async"

\* getAsync runs an async factory that asks get for a sync service, whose
\* factory asks the provider for getAsync while an async service is
\* registered: the provider has no such method.
C31_Witness ==
    /\ variant = "scoped"
    /\ Len(gets) = 1
    /\ gets[1].entry = "getAsync"
    /\ gets[1].threw = "TypeError"
    /\ Len(gets[1].events) = 2
    /\ gets[1].events[1].partition = "async"
    /\ gets[1].events[2].partition = "sync"
    /\ gets[1].events[2].by = 1

\* C32: registering on a scoped builder and resolving through the scoped
\* container (or the parent) never adds, replaces or removes a registration of
\* the parent container: no step changes one of the four maps of the parent.
C32_ParentRegistrationsKept ==
    [][variant = "scoped" =>
          /\ syncFactories'["parent"] = syncFactories["parent"]
          /\ asyncFactories'["parent"] = asyncFactories["parent"]]_vars

\* The scoped builder registered "a", which the parent has too, and the
\* scoped container's get('a') answered with the parent's singleton, read
\* from the parent's registration and kept in the parent's registry.
C32_Witness ==
    /\ variant = "scoped"
    /\ Container_has("child", "a")
    /\ Container_has("parent", "a")
    /\ Len(gets) = 1
    /\ gets[1].on = "child"
    /\ gets[1].threw = ""
    /\ gets[1].events[1].owner = "parent"
    /\ slots["parent"]["sync"]["a"] = <<gets[1].ret>>

====
